---- MODULE Spec2Model ----
(***************************************************************************)
(* A model of the CLY grammar engine (cly/builder.py, cly/parser.py):      *)
(* the node store built by Node.__call__, alias resolution, and the        *)
(* recursive-descent driver Parser.parse with Context.execute.             *)
(*                                                                         *)
(* Text is a sequence of one-character strings; a cursor c (0-based, as in *)
(* Python) points at element c+1 of the sequence.                          *)
(***************************************************************************)
EXTENDS Integers, Sequences, FiniteSets, TLC

\* ------------------------------------------------------------------ bounds

\* Longest command line that is parsed.
MaxLen == 5

\* Nesting depth at which the interpreter gives up (maximum recursion depth
\* exceeded) while resolving aliases.
MaxDepth == 6

\* Depth of Parser.parse's recursion at which the interpreter gives up.
RecursionLimit == 2 * MaxLen + 6

\* The characters commands are made of.
Alphabet == {" ", "e", "m"}

\* ------------------------------------------------------------------ text

\* Characters in code point order (the order Python compares strings by).
CharTable ==
  << " ", "*", ".", "0", "1", "2", "3", "4", "5", "6", "7", "8", "9", "<", ">",
     "?", "A", "B", "C", "D", "E", "F", "G", "H", "I", "J", "K", "L", "M", "N",
     "O", "P", "Q", "R", "S", "T", "U", "V", "W", "X", "Y", "Z", "_", "a", "b", "c", "d", "e", "f", "g", "h", "i", "j", "k", "l", "m",
     "n", "o", "p", "q", "r", "s", "t", "u", "v", "w", "x", "y", "z" >>

Ord(c) == CHOOSE i \in 1..Len(CharTable) : CharTable[i] = c

\* Python's str < str: lexicographic by code point.
RECURSIVE StrLess(_, _)
StrLess(a, b) ==
  IF b = <<>> THEN FALSE
  ELSE IF a = <<>> THEN TRUE
  ELSE IF Head(a) = Head(b) THEN StrLess(Tail(a), Tail(b))
  ELSE Ord(Head(a)) < Ord(Head(b))

\* regex \s and \w on the characters of the model
IsSpace(c) == c = " "
IsDigit(c) == Ord(c) >= Ord("0") /\ Ord(c) <= Ord("9")
IsUpper(c) == Ord(c) >= Ord("A") /\ Ord(c) <= Ord("Z")
IsWord(c) ==
  c = "_" \/ IsDigit(c) \/ IsUpper(c) \/ (Ord(c) >= Ord("a") /\ Ord(c) <= Ord("z"))

\* What the regex flag (?i) folds a character of the pattern's alphabet to
Lower(c) == IF IsUpper(c) THEN CharTable[Ord(c) - Ord("A") + Ord("a")] ELSE c
LowerAll(text) == [i \in 1..Len(text) |-> Lower(text[i])]

\* command[cursor:]
Slice(text, from, to) == SubSeq(text, from + 1, to)
Remaining(text, cursor) == SubSeq(text, cursor + 1, Len(text))

\* Length of the longest run of characters satisfying a class, from pos.
RECURSIVE SpaceRun(_, _)
SpaceRun(text, pos) ==
  IF pos < Len(text) /\ IsSpace(text[pos + 1]) THEN 1 + SpaceRun(text, pos + 1) ELSE 0

RECURSIVE WordRun(_, _)
WordRun(text, pos) ==
  IF pos < Len(text) /\ IsWord(text[pos + 1]) THEN 1 + WordRun(text, pos + 1) ELSE 0

RECURSIVE DigitRun(_, _)
DigitRun(text, pos) ==
  IF pos < Len(text) /\ IsDigit(text[pos + 1]) THEN 1 + DigitRun(text, pos + 1) ELSE 0

\* text.startswith(prefix)
StartsWith(text, prefix) == Len(prefix) <= Len(text) /\ SubSeq(text, 1, Len(prefix)) = prefix

\* str.strip() leaves nothing: every character is whitespace
IsBlank(text) == \A i \in 1..Len(text) : IsSpace(text[i])

\* ------------------------------------------------------------------ patterns

\* A regular expression source string, by shape.  "none" is Python's None.
PatNone == [t |-> "none", s |-> <<>>]
PatLit(s) == [t |-> "lit", s |-> s]
PatEmpty == PatLit(<<>>)
PatEol == [t |-> "eol", s |-> <<>>]
PatWord == [t |-> "word", s |-> <<>>]
PatDigits == [t |-> "digits", s |-> <<>>]
PatBoolean == [t |-> "boolean", s |-> <<>>]
PatName == [t |-> "name", s |-> <<>>]
SepDefault == [t |-> "ws", s |-> <<>>]
Unset == [t |-> "unset", s |-> <<>>]

NoMatch == 0 - 1

\* Boolean.TRUE and Boolean.FALSE
BooleanTrue ==
  << <<"t", "r", "u", "e">>, <<"y", "e", "s">>, <<"a", "y", "e">>,
     <<"e", "n", "a", "b", "l", "e">>, <<"e", "n", "a", "b", "l", "e", "d">>,
     <<"o", "n">>, <<"1">> >>
BooleanFalse ==
  << <<"f", "a", "l", "s", "e">>, <<"n", "o">>, <<"d", "i", "s", "a", "b", "l", "e">>,
     <<"d", "i", "s", "a", "b", "l", "e", "d">>, <<"o", "f", "f">>, <<"0">> >>

\* (?i)(w1|w2|...): the lengths of the alternatives that match at pos, in the
\* order of the alternatives
RECURSIVE AltLens(_, _, _)
AltLens(words, text, pos) ==
  IF words = <<>> THEN <<>>
  ELSE (IF pos + Len(Head(words)) <= Len(text)
           /\ LowerAll(Slice(text, pos, pos + Len(Head(words)))) = LowerAll(Head(words))
        THEN <<Len(Head(words))>> ELSE <<>>) \o AltLens(Tail(words), text, pos)

\* (?i)[A-Z_]\w+: a letter or underscore, then one word character at least;
\* n is the run of word characters from pos
NameLens(text, pos, n) ==
  IF n >= 2 /\ ~IsDigit(text[pos + 1]) THEN [i \in 1..(n - 1) |-> n + 1 - i] ELSE <<>>

\* The lengths at which a compiled pattern can match at pos, in the order the
\* regex engine tries them (greedy first).
PatLens(pat, text, pos) ==
  CASE pat.t = "lit" ->
         IF pos + Len(pat.s) <= Len(text) /\ Slice(text, pos, pos + Len(pat.s)) = pat.s
         THEN <<Len(pat.s)>> ELSE <<>>
    [] pat.t = "eol" -> IF pos = Len(text) THEN <<0>> ELSE <<>>
    [] pat.t = "word" ->
         LET n == WordRun(text, pos) IN [i \in 1..n |-> n + 1 - i]
    [] pat.t = "digits" ->
         LET n == DigitRun(text, pos) IN [i \in 1..n |-> n + 1 - i]
    [] pat.t = "boolean" -> AltLens(BooleanTrue \o BooleanFalse, text, pos)
    [] pat.t = "name" -> NameLens(text, pos, WordRun(text, pos))
    [] OTHER -> <<>>

\* re.match(pattern, text, pos): length of the match, or NoMatch
PatMatch(pat, text, pos) ==
  LET ls == PatLens(pat, text, pos) IN IF ls = <<>> THEN NoMatch ELSE ls[1]

\* A separator that takes one whitespace character at most, as r'\s|$' does
SepSingle(sep, text, pos) ==
  IF sep.t # "ws" THEN NoMatch
  ELSE IF SpaceRun(text, pos) > 0 THEN 1
  ELSE IF pos = Len(text) THEN 0
  ELSE NoMatch

\* A separator that also matches the empty string before any character, as
\* r'\s*' does
SepOptional(sep, text, pos) == SpaceRun(text, pos)

\* re.match(separator, text, pos) for r'\s+|\s*$' and for a literal separator
SepMatch(sep, text, pos) ==
  IF sep.t = "lit"
  THEN (IF pos + Len(sep.s) <= Len(text) /\ SubSeq(text, pos + 1, pos + Len(sep.s)) = sep.s
        THEN Len(sep.s) ELSE NoMatch)
  ELSE IF sep.t # "ws" THEN NoMatch
  ELSE IF SpaceRun(text, pos) > 0 THEN SpaceRun(text, pos)
  ELSE IF pos = Len(text) THEN 0
  ELSE NoMatch

\* re.match('(?:pattern)(?:separator)', text, pos): the first pattern length,
\* in the engine's order, after which the separator matches
RECURSIVE FullLens(_, _, _, _)
FullLens(sep, text, pos, ls) ==
  IF ls = <<>> THEN NoMatch
  ELSE IF SepMatch(sep, text, pos + Head(ls)) # NoMatch
       THEN Head(ls) + SepMatch(sep, text, pos + Head(ls))
  ELSE FullLens(sep, text, pos, Tail(ls))

FullMatch(full, text, pos) ==
  IF full.p.t = "unset" THEN NoMatch
  ELSE FullLens(full.sep, text, pos, PatLens(full.p, text, pos))

\* ------------------------------------------------------------------ nodes

\* Python's None, for a name and for an attribute missing from a keyword set
NoName == <<>>
Absent == 0 - 1
NoOpts == [traversals |-> Absent, group |-> Absent, order |-> Absent]
NoTarget == [abs |-> FALSE, comps |-> <<>>]
NoChildren == [k \in {} |-> 0]

\* The class attribute `pattern` of each node class.
ClassPattern(kind) ==
  CASE kind = "Node" -> PatNone
    [] kind = "Grammar" -> PatNone
    [] kind = "Group" -> PatEmpty
    [] kind = "Alias" -> PatEmpty
    [] kind = "Action" -> PatEol
    [] kind = "Variable" -> PatWord
    [] kind = "Integer" -> PatDigits
    [] kind = "Boolean" -> PatBoolean
    [] kind = "Checked" -> PatWord
    [] kind = "Word" -> PatName

\* The class attribute `group` of each node class.
ClassGroup(kind) == IF kind = "Action" THEN 9999 ELSE 0

IsVariableKind(kind) == kind \in {"Variable", "Integer", "Boolean", "Checked", "Word"}

\* re.compile of pattern followed by separator
CompileFull(pattern, separator) == [p |-> pattern, sep |-> separator]

\* Node._set_name
SetName(node, name) ==
  LET n1 == [node EXCEPT !.name = name]
      n2 == IF name # NoName /\ n1.pattern.t = "none"
            THEN [n1 EXCEPT !.pattern = PatLit(name), !.cpattern = PatLit(name)]
            ELSE n1
  IN IF n2.pattern.t # "none" /\ n2.separator.t # "none"
     THEN [n2 EXCEPT !.full = CompileFull(n2.pattern, n2.separator)]
     ELSE n2

\* setattr(self, k, v) for each non-node keyword of Node.__call__
ApplyOpts(node, o) ==
  [node EXCEPT !.traversals = IF o.traversals = Absent THEN @ ELSE o.traversals,
               !.group = IF o.group = Absent THEN @ ELSE o.group,
               !.order = IF o.order = Absent THEN @ ELSE o.order]

\* Node.__init__, help given as a string: self.help = LazyHelp(self, help)
LazyHelp(text) == [lazy |-> TRUE, text |-> text, rows |-> <<>>]

\* Help(doc): the (key, help) pairs of doc
HelpPairs(rows) == [lazy |-> FALSE, text |-> <<>>, rows |-> rows]

\* Help.pair(name, help)
HelpPair(key, text) == HelpPairs(<<[key |-> key, text |-> text]>>)

\* The candidates attribute: the method of the class, or the callable that
\* extra.static_candidates(*candidates) returns
NoStatic == [static |-> FALSE, items |-> <<>>]
StaticCandidates(items) == [static |-> TRUE, items |-> items]

\* Node.__init__ without children: `explicit` is the pattern keyword (Unset
\* when the keyword is not given), `name` the name keyword.
NodeInit(kind, explicit, name, o) ==
  LET pat == IF explicit.t = "unset" THEN ClassPattern(kind) ELSE explicit
      base == [kind |-> kind, name |-> NoName, parent |-> 0,
               children |-> NoChildren, anon |-> 0,
               pattern |-> pat,
               cpattern |-> IF pat.t # "none" THEN pat ELSE Unset,
               separator |-> SepDefault, cseparator |-> SepDefault,
               full |-> IF pat.t # "none" THEN CompileFull(pat, SepDefault)
                        ELSE CompileFull(Unset, Unset),
               traversals |-> 1, group |-> ClassGroup(kind), order |-> 0,
               match_candidates |-> FALSE,
               var_name |-> NoName, target |-> NoTarget,
               callback |-> "unset", with_user_context |-> "None",
               apply |-> NoOpts,
               help |-> LazyHelp(<<>>), hidden |-> FALSE, candidates |-> NoStatic]
  IN ApplyOpts(SetName(base, name), o)

\* Grammar.__init__: Node.__init__(self, '<root>', pattern='')
GrammarInit == NodeInit("Grammar", PatEmpty, NoName, NoOpts)

\* Variable.__init__: var_name keyword, then Node.__init__
VariableInit(kind, var_name, o) ==
  [NodeInit(kind, Unset, NoName, o) EXCEPT !.var_name = var_name]

\* Action.__init__: Node.__init__(self, help, callback=callback, ...), so the
\* callback keyword is assigned to the instance even when it is None
ActionInit(callback, with_ctx, o) ==
  [NodeInit("Action", Unset, NoName, o) EXCEPT !.callback = callback,
                                               !.with_user_context = with_ctx,
                                               !.help = HelpPair(<<"<", "e", "o", "l", ">">>, <<>>)]

\* Alias.__init__
AliasInit(target) ==
  [NodeInit("Alias", Unset, NoName, NoOpts) EXCEPT
     !.target = target, !.help = LazyHelp(<<"<", "a", "l", "i", "a", "s", ">">>)]

\* Group.__init__: the overrides are kept and applied to the group itself
GroupInit(apply) ==
  ApplyOpts([NodeInit("Group", Unset, NoName, NoOpts) EXCEPT
               !.apply = apply, !.help = LazyHelp(<<"<", "G", "r", "o", "u", "p", ">">>)],
            apply)

\* A node store is a sequence of nodes: node identities are positions in it.

Put(f, k, v) == [x \in DOMAIN f \cup {k} |-> IF x = k THEN v ELSE f[x]]
Drop(f, k) == [x \in DOMAIN f \ {k} |-> f[x]]

\* '__anonymous_%i' % n
Anon(n) ==
  <<"_", "_", "a", "n", "o", "n", "y", "m", "o", "u", "s", "_">>
    \o <<CharTable[Ord("0") + n]>>

\* Nodes reached by Node.walk from g with Group.__call__'s predicate: g
\* itself and every descendant not at or beneath another Group.
RECURSIVE WalkNoGroup(_, _, _)
WalkNoGroup(s, front, seen) ==
  LET next == {c \in 1..Len(s) :
                 /\ c \notin seen
                 /\ s[c].kind # "Group"
                 /\ \E p \in front : \E k \in DOMAIN s[p].children : s[p].children[k] = c}
  IN IF next = {} THEN seen ELSE WalkNoGroup(s, next, seen \cup next)

\* The tail of Group.__call__: re-apply the overrides over the walk
GroupApply(s, g) ==
  LET reach == WalkNoGroup(s, {g}, {g})
  IN [i \in 1..Len(s) |-> IF i \in reach THEN ApplyOpts(s[i], s[g].apply) ELSE s[i]]

\* The body of Node.__call__'s loops for one child stored under key k
Attach(s, p, k, c) ==
  LET s1 == [s EXCEPT ![c] = [SetName(s[c], k) EXCEPT !.parent = p]]
  IN [s1 EXCEPT ![p].children = Put(s1[p].children, k, c)]

AfterCall(s, p) == IF s[p].kind = "Group" THEN GroupApply(s, p) ELSE s

\* node(**{k: c}): a named child; a trailing underscore of the key is dropped
StripKey(k) == IF k # <<>> /\ k[Len(k)] = "_" THEN SubSeq(k, 1, Len(k) - 1) ELSE k
CallNamed(s, p, k, c) == AfterCall(Attach(s, p, StripKey(k), c), p)

\* node(c): a positional child, stored under the next anonymous name
CallAnon(s, p, c) ==
  LET s1 == Attach(s, p, Anon(s[p].anon), c)
  IN AfterCall([s1 EXCEPT ![p].anon = @ + 1], p)

\* del node[k]
DelItem(s, p, k) ==
  LET c == s[p].children[k]
      s1 == [s EXCEPT ![p].children = Drop(@, k)]
  IN [s1 EXCEPT ![c].parent = 0]

\* (i.group, i.order, i.name) < (j.group, j.order, j.name)
KeyLess(s, a, b) ==
  \/ s[a].group < s[b].group
  \/ s[a].group = s[b].group /\ s[a].order < s[b].order
  \/ s[a].group = s[b].group /\ s[a].order = s[b].order /\ StrLess(s[a].name, s[b].name)

\* The dictionary key whose node sorts first; equal sort keys (one node stored
\* twice) are taken in the order of their dictionary keys.
FirstKey(s, ch, keys) ==
  CHOOSE x \in keys : \A j \in keys \ {x} :
    ~(\/ KeyLess(s, ch[j], ch[x])
      \/ ~KeyLess(s, ch[x], ch[j]) /\ StrLess(j, x))

\* sorted(self._children.values(), key=lambda i: (i.group, i.order, i.name))
RECURSIVE SortedValues(_, _, _)
TakeKey(s, ch, keys, k) == <<ch[k]>> \o SortedValues(s, ch, keys \ {k})
SortedValues(s, ch, keys) ==
  IF keys = {} THEN <<>> ELSE TakeKey(s, ch, keys, FirstKey(s, ch, keys))

\* Node.__iter__
Iter(s, n) == SortedValues(s, s[n].children, DOMAIN s[n].children)

\* node(g) with g a Grammar: self(**dict((n.name, n) for n in g))
RECURSIVE MergeEach(_, _, _)
MergeEach(s, p, kids) ==
  IF kids = <<>> THEN s
  ELSE MergeEach(CallNamed(s, p, s[Head(kids)].name, Head(kids)), p, Tail(kids))

MergeGrammar(s, p, g) == MergeEach(s, p, Iter(s, g))

\* Node.path as the list of its components; the walk up stops after as many
\* steps as there are nodes
RECURSIVE PathUp(_, _, _)
PathUp(s, n, fuel) ==
  IF n = 0 \/ fuel = 0 THEN <<>>
  ELSE PathUp(s, s[n].parent, fuel - 1) \o (IF s[n].name # NoName THEN <<s[n].name>> ELSE <<>>)

Path(s, n) == PathUp(s, n, Len(s))

\* the root an Alias resolves from: `while root.parent: root = root.parent`
RECURSIVE RootUp(_, _, _)
RootUp(s, n, fuel) ==
  IF s[n].parent = 0 \/ fuel = 0 THEN n ELSE RootUp(s, s[n].parent, fuel - 1)

RootOf(s, n) == RootUp(s, n, Len(s))

\* Node.find: 0 when a component is absent (InvalidNodePath)
RECURSIVE Find(_, _, _)
RECURSIVE FindIn(_, _, _)
FindIn(s, kids, comps) ==
  IF kids = <<>> THEN 0
  ELSE IF s[Head(kids)].name = Head(comps) THEN Find(s, Head(kids), Tail(comps))
  ELSE FindIn(s, Tail(kids), comps)

Find(s, n, comps) == IF comps = <<>> THEN n ELSE FindIn(s, Iter(s, n), comps)

\* posixpath.normpath of an absolute path
RECURSIVE NormPath(_, _)
NormPath(done, comps) ==
  IF comps = <<>> THEN done
  ELSE IF Head(comps) = <<".">> THEN NormPath(done, Tail(comps))
  ELSE IF Head(comps) = <<".", ".">>
       THEN NormPath(IF done = <<>> THEN done ELSE SubSeq(done, 1, Len(done) - 1), Tail(comps))
  ELSE NormPath(Append(done, Head(comps)), Tail(comps))

\* Alias.target: normpath(join(self.path(), self._target))
AliasTarget(s, a) ==
  NormPath(<<>>, IF s[a].target.abs THEN s[a].target.comps
                 ELSE Path(s, a) \o s[a].target.comps)

\* posixpath.dirname and posixpath.basename of a normalized path
DirName(path) == SubSeq(path, 1, Len(path) - 1)
BaseName(path) == IF path = <<>> THEN <<>> ELSE path[Len(path)]

\* fnmatch.fnmatch with * and ?
RECURSIVE FnMatch(_, _)
FnMatch(name, pat) ==
  IF pat = <<>> THEN name = <<>>
  ELSE IF Head(pat) = "*"
       THEN FnMatch(name, Tail(pat)) \/ (name # <<>> /\ FnMatch(Tail(name), pat))
  ELSE /\ name # <<>>
       /\ (Head(pat) = "?" \/ Head(pat) = Head(name))
       /\ FnMatch(Tail(name), Tail(pat))

\* ------------------------------------------------------------------ context

\* A parsed value: the matched text, or what a Variable subclass makes of it.
StrVal(text) == [t |-> "str", s |-> text]

\* int(text) of a run of digits, as the digits Python prints it with
RECURSIVE IntVal(_)
IntVal(text) ==
  IF Len(text) > 1 /\ Head(text) = "0" THEN IntVal(Tail(text)) ELSE [t |-> "int", s |-> text]

BoolVal(b) == [t |-> "bool", s |-> IF b THEN <<"T", "r", "u", "e">> ELSE <<"F", "a", "l", "s", "e">>]

\* An entry of Context.vars: one value, or the list a Variable accumulates.
Scalar(v) == [list |-> FALSE, items |-> <<v>>]
ListOf(vs) == [list |-> TRUE, items |-> vs]

\* A regex match object (start and length of group()), or None.
NoneMatch == [some |-> FALSE, start |-> 0, len |-> 0]
MatchAt(start, len) == [some |-> TRUE, start |-> start, len |-> len]
NoPending == [node |-> 0, match |-> NoneMatch]

\* Context.__init__; status and err record how Parser.parse and
\* Context.execute ended, calls the callbacks invoked for this context.
NewContext(command) ==
  [command |-> command, cursor |-> 0, vars |-> [k \in {} |-> Scalar(StrVal(<<>>))],
   traversed |-> [k \in {} |-> 0], trail |-> <<>>, pending |-> NoPending,
   status |-> "new", err |-> "none", calls |-> <<>>, result |-> <<>>]

Raise(ctx, e) == [ctx EXCEPT !.status = "raised", !.err = e]

\* Context.traversed, for node.path()
TraversedAt(ctx, path) == IF path \in DOMAIN ctx.traversed THEN ctx.traversed[path] ELSE 0
Traversed(s, ctx, n) == TraversedAt(ctx, Path(s, n))

\* Context.traversed as it would be with the setdefault of Context.selected:
\* the path asked for gets a counter
TraversedSetdefault(ctx, path) ==
  [ctx EXCEPT !.traversed = Put(@, path, TraversedAt(ctx, path))]

\* The context Context.traversed leaves: dict.get with a default stores no key
AfterTraversed(ctx, path) == ctx

\* Context.selected, for node.path()
SelectedAt(ctx, path) == [ctx EXCEPT !.traversed = Put(@, path, TraversedAt(ctx, path) + 1)]
CtxSelected(s, ctx, n) == SelectedAt(ctx, Path(s, n))

\* Context.parsed
ParsedText(ctx) == Slice(ctx.command, 0, ctx.cursor)

\* Context.advance as it would be if it assigned the distance to the cursor
CtxAdvanceTo(ctx, distance) == [ctx EXCEPT !.cursor = distance]

\* Context.advance
CtxAdvance(ctx, distance) == [ctx EXCEPT !.cursor = @ + distance]

\* ------------------------------------------------------------------ node contract

\* The outcome of a call that returns a boolean or raises.
Yes == [ok |-> TRUE, err |-> "none"]
No == [ok |-> FALSE, err |-> "none"]
Fails(e) == [ok |-> FALSE, err |-> e]
Bool(b) == IF b THEN Yes ELSE No

\* What a generator yields: nodes, then possibly the exception that ends it.
Item(n) == [node |-> n, err |-> "none"]
ErrItem(e) == <<[node |-> 0, err |-> e]>>
Items(ns) == [i \in 1..Len(ns) |-> Item(ns[i])]
HasErr(items) == items # <<>> /\ items[Len(items)].err # "none"

\* a generator's items followed by what the rest of the loop yields, unless
\* an exception ended it
Chain(first, rest) == IF HasErr(first) THEN first ELSE first \o rest

\* Node.valid as it would be if traversals were not counted
AlwaysValid(s, ctx, n) == TRUE

\* Node.valid
NodeValid(s, ctx, n) ==
  s[n].traversals = 0 \/ Traversed(s, ctx, n) < s[n].traversals

\* len(value): a string, tuple or list has a length, a number has none
HasLen(value) == value.list \/ value.items[1].t \in {"str", "tuple"}
LenOf(value) == IF value.list THEN Len(value.items) ELSE Len(value.items[1].s)

\* Variable.valid
VariableValid(s, ctx, n) ==
  IF s[n].traversals # 1 THEN Bool(NodeValid(s, ctx, n))
  ELSE IF s[n].name \notin DOMAIN ctx.vars THEN Bool(NodeValid(s, ctx, n))
  ELSE IF ~HasLen(ctx.vars[s[n].name]) THEN Fails("TypeError")
  ELSE IF LenOf(ctx.vars[s[n].name]) < s[n].traversals THEN Bool(NodeValid(s, ctx, n))
  ELSE No

RECURSIVE Valid(_, _, _, _)
RECURSIVE Follow(_, _, _, _)
RECURSIVE Children(_, _, _, _, _)
RECURSIVE ChildrenFrom(_, _, _, _, _)
RECURSIVE KeepValid(_, _, _, _)
RECURSIVE AnyValid(_, _, _, _)

\* Alias.valid: the first followed node that is valid decides
FirstValid(v, rest) == IF v.err # "none" \/ v.ok THEN v ELSE rest
AnyValid(s, ctx, items, fuel) ==
  IF items = <<>> THEN No
  ELSE IF Head(items).err # "none" THEN Fails(Head(items).err)
  ELSE FirstValid(Valid(s, ctx, Head(items).node, fuel), AnyValid(s, ctx, Tail(items), fuel))

\* valid(context) of each node class; fuel is the call depth left
Valid(s, ctx, n, fuel) ==
  IF fuel = 0 THEN Fails("RuntimeError")
  ELSE CASE s[n].kind = "Group" -> Yes
         [] s[n].kind = "Alias" -> AnyValid(s, ctx, Follow(s, ctx, n, fuel - 1), fuel - 1)
         [] IsVariableKind(s[n].kind) -> VariableValid(s, ctx, n)
         [] OTHER -> Bool(NodeValid(s, ctx, n))

\* `if node.valid(context): yield ...`
WhenValid(v, items) ==
  IF v.err # "none" THEN ErrItem(v.err) ELSE IF v.ok THEN items ELSE <<>>

\* `if branch.valid(context): yield branch` over a generator's items
KeepValid(s, ctx, items, fuel) ==
  IF items = <<>> THEN <<>>
  ELSE IF Head(items).err # "none" THEN <<Head(items)>>
  ELSE Chain(WhenValid(Valid(s, ctx, Head(items).node, fuel), <<Head(items)>>),
             KeepValid(s, ctx, Tail(items), fuel))

\* the loop of Node.children over the sorted children
ChildrenFrom(s, ctx, kids, follow, fuel) ==
  IF kids = <<>> THEN <<>>
  ELSE Chain(WhenValid(Valid(s, ctx, Head(kids), fuel),
                       IF follow THEN KeepValid(s, ctx, Follow(s, ctx, Head(kids), fuel), fuel)
                       ELSE <<Item(Head(kids))>>),
             ChildrenFrom(s, ctx, Tail(kids), follow, fuel))

\* Node.children
Children(s, ctx, n, follow, fuel) ==
  IF fuel = 0 THEN ErrItem("RuntimeError")
  ELSE ChildrenFrom(s, ctx, Iter(s, n), follow, fuel - 1)

\* the glob branch of Alias.follow: `if fnmatch(child.name, match): yield child`
RECURSIVE GlobKeep(_, _, _)
GlobKeep(s, items, pat) ==
  IF items = <<>> THEN <<>>
  ELSE IF Head(items).err # "none" THEN <<Head(items)>>
  ELSE (IF FnMatch(s[Head(items).node].name, pat) THEN <<Head(items)>> ELSE <<>>)
         \o GlobKeep(s, Tail(items), pat)

\* Alias.follow, with root.find(self.target) and
\* root.find(posixpath.dirname(self.target)) worked out
AliasPick(s, ctx, hit, start, pat, fuel) ==
  IF hit # 0 THEN <<Item(hit)>>
  ELSE IF start = 0 THEN ErrItem("InvalidNodePath")
  ELSE GlobKeep(s, Children(s, ctx, start, TRUE, fuel), pat)

AliasResolve(s, ctx, root, target, fuel) ==
  AliasPick(s, ctx, Find(s, root, target), Find(s, root, DirName(target)),
            BaseName(target), fuel)

AliasFollow(s, ctx, a, fuel) == AliasResolve(s, ctx, RootOf(s, a), AliasTarget(s, a), fuel)

\* follow(context) of each node class
Follow(s, ctx, n, fuel) ==
  IF fuel = 0 THEN ErrItem("RuntimeError")
  ELSE CASE s[n].kind = "Group" -> Items(Iter(s, n))
         [] s[n].kind = "Alias" -> AliasFollow(s, ctx, n, fuel - 1)
         [] OTHER -> <<Item(n)>>

\* Node.next
NextNodes(s, ctx, n) == Children(s, ctx, n, TRUE, MaxDepth)

\* '<%s>' % name
Angle(name) ==
  <<"<">> \o (IF name = NoName THEN <<"N", "o", "n", "e">> ELSE name) \o <<">">>

\* LazyHelp.__call__: the key is the name of a node whose pattern is its name
LazyKey(node) ==
  IF node.pattern = PatLit(node.name) \/ (node.name = NoName /\ node.pattern.t = "none")
  THEN node.name ELSE Angle(node.name)

\* node.help(context): LazyHelp.__call__, Help.__call__, or the lambda of
\* Action.__init__
HelpOf(node) ==
  IF node.help.lazy THEN <<[key |-> LazyKey(node), text |-> node.help.text]>>
  ELSE node.help.rows

\* What a call that yields strings produced: the strings, and the exception
\* that ended it if one did
Yielded(items) == [items |-> items, err |-> "none"]
Broken(e) == [items |-> <<>>, err |-> e]
After(items, rest) == [rest EXCEPT !.items = items \o @]
Then(first, rest) == IF first.err # "none" THEN first ELSE After(first.items, rest)

\* Node.candidates as it would be if it offered every help key
EveryKey(rows, text) == Yielded([i \in 1..Len(rows) |-> rows[i].key \o <<" ">>])

\* Node.candidates
RECURSIVE KeyCandidates(_, _)
KeyCandidates(rows, text) ==
  IF rows = <<>> THEN Yielded(<<>>)
  ELSE IF Head(rows).key = <<>> THEN Broken("IndexError")
  ELSE After(IF Head(rows).key[1] # "<" /\ StartsWith(Head(rows).key, text)
             THEN <<Head(rows).key \o <<" ">>>> ELSE <<>>,
             KeyCandidates(Tail(rows), text))

\* extra.static_candidates(*candidates)(context, text)
RECURSIVE CullCandidates(_, _)
CullCandidates(items, text) ==
  IF items = <<>> THEN <<>>
  ELSE (IF StartsWith(Head(items), text) THEN <<Head(items) \o <<" ">>>> ELSE <<>>)
         \o CullCandidates(Tail(items), text)

\* node.candidates(context, text)
NodeCandidates(s, ctx, n, text) ==
  IF s[n].candidates.static THEN Yielded(CullCandidates(s[n].candidates.items, text))
  ELSE KeyCandidates(HelpOf(s[n]), text)

\* The outcome of match(context): a match, None, or an exception.
Matched(start, len) == [match |-> MatchAt(start, len), err |-> "none"]
Unmatched == [match |-> NoneMatch, err |-> "none"]
MatchFails(e) == [match |-> NoneMatch, err |-> e]

\* Node.match as it would be if it did not look at the separator
MatchAnySeparator(s, ctx, n, v, len) ==
  IF v.err # "none" THEN MatchFails(v.err)
  ELSE IF ~v.ok THEN Unmatched
  ELSE IF s[n].cpattern.t = "unset" THEN MatchFails("AttributeError")
  ELSE IF len = NoMatch THEN Unmatched
  ELSE Matched(ctx.cursor, len)

\* Node.match as it would be if it did not look at match_candidates
MatchUnconstrained(s, ctx, n, v, len) ==
  IF v.err # "none" THEN MatchFails(v.err)
  ELSE IF ~v.ok THEN Unmatched
  ELSE IF s[n].cpattern.t = "unset" THEN MatchFails("AttributeError")
  ELSE IF len = NoMatch THEN Unmatched
  ELSE IF SepMatch(s[n].cseparator, ctx.command, ctx.cursor + len) = NoMatch THEN Unmatched
  ELSE Matched(ctx.cursor, len)

\* `match.group() + ' ' not in self.candidates(context, match.group())`: the
\* search ends at the first candidate that is the token, and with the
\* exception the enumeration raises when none was
Constrained(cands, token, start, len) ==
  IF \E i \in 1..Len(cands.items) : cands.items[i] = token \o <<" ">> THEN Matched(start, len)
  ELSE IF cands.err # "none" THEN MatchFails(cands.err)
  ELSE Unmatched

\* Node.match, with self.valid(context) and self._pattern.match(...) worked out
MatchWhen(s, ctx, n, v, len) ==
  IF v.err # "none" THEN MatchFails(v.err)
  ELSE IF ~v.ok THEN Unmatched
  ELSE IF s[n].cpattern.t = "unset" THEN MatchFails("AttributeError")
  ELSE IF len = NoMatch THEN Unmatched
  ELSE IF SepMatch(s[n].cseparator, ctx.command, ctx.cursor + len) = NoMatch THEN Unmatched
  ELSE IF s[n].match_candidates
       THEN Constrained(NodeCandidates(s, ctx, n, Slice(ctx.command, ctx.cursor, ctx.cursor + len)),
                        Slice(ctx.command, ctx.cursor, ctx.cursor + len), ctx.cursor, len)
  ELSE Matched(ctx.cursor, len)

Match(s, ctx, n) ==
  MatchWhen(s, ctx, n, Valid(s, ctx, n, MaxDepth),
            PatMatch(s[n].cpattern, ctx.command, ctx.cursor))

\* Node.advance
AdvanceBy(ctx, len) ==
  IF len = NoMatch THEN Raise(ctx, "AttributeError") ELSE CtxAdvance(ctx, len)
Advance(s, ctx, n) == AdvanceBy(ctx, FullMatch(s[n].full, ctx.command, ctx.cursor))

\* Variable.parse and its overrides
ParseValue(kind, text) ==
  CASE kind = "Integer" -> IntVal(text)
    [] kind = "Boolean" -> BoolVal(\E i \in 1..Len(BooleanTrue) : BooleanTrue[i] = text)
    [] OTHER -> StrVal(text)

\* Variable.parse is the hook "alternate variables should override", and it
\* "must throw a ValidationError if the input is invalid".  Checked is such a
\* variable of the program using the library: a Variable whose parse rejects
\* a word that begins with 0.
Rejects(kind, text) == kind = "Checked" /\ text # <<>> /\ Head(text) = "0"

\* Variable.var_name
VarName(node) == IF node.var_name # NoName THEN node.var_name ELSE node.name

\* Variable.selected as it would be if an accumulated value went to the front
\* of the list (insert(0, value) for append(value))
StoreValuePrepend(s, ctx, n, key, value) ==
  IF s[n].traversals = 0 \/ s[n].traversals > 1
  THEN IF key \notin DOMAIN ctx.vars
       THEN CtxSelected(s, [ctx EXCEPT !.vars = Put(@, key, ListOf(<<value>>))], n)
       ELSE IF ~ctx.vars[key].list THEN Raise(ctx, "AttributeError")
       ELSE CtxSelected(s, [ctx EXCEPT !.vars[key] = ListOf(<<value>> \o @.items)], n)
  ELSE CtxSelected(s, [ctx EXCEPT !.vars = Put(@, key, Scalar(value))], n)

\* Variable.selected, with self.parse(context, match) and self.var_name worked out
StoreValue(s, ctx, n, key, value) ==
  IF s[n].traversals = 0 \/ s[n].traversals > 1
  THEN IF key \notin DOMAIN ctx.vars
       THEN CtxSelected(s, [ctx EXCEPT !.vars = Put(@, key, ListOf(<<value>>))], n)
       ELSE IF ~ctx.vars[key].list THEN Raise(ctx, "AttributeError")
       ELSE CtxSelected(s, [ctx EXCEPT !.vars[key] = ListOf(Append(@.items, value))], n)
  ELSE CtxSelected(s, [ctx EXCEPT !.vars = Put(@, key, Scalar(value))], n)

\* Variable.selected as it would be if it caught the ValidationError of
\* self.parse and went on with the matched text
VariableSelectedAnyway(s, ctx, n, m) ==
  StoreValue(s, ctx, n, VarName(s[n]),
             ParseValue(s[n].kind, Slice(ctx.command, m.start, m.start + m.len)))

\* Variable.selected: the ValidationError of self.parse is raised again, with
\* the context and the token, before anything is stored
VariableSelected(s, ctx, n, m) ==
  IF Rejects(s[n].kind, Slice(ctx.command, m.start, m.start + m.len))
  THEN Raise(ctx, "ValidationError")
  ELSE StoreValue(s, ctx, n, VarName(s[n]),
                  ParseValue(s[n].kind, Slice(ctx.command, m.start, m.start + m.len)))

\* Action.selected: actions are not traversed
ActionSelected(s, ctx, n, m) == ctx

\* Alias.selected
AliasSelected(s, ctx, n, m) == Raise(ctx, "Error")

\* selected(context, match) of each node class
Selected(s, ctx, n, m) ==
  CASE s[n].kind = "Alias" -> AliasSelected(s, ctx, n, m)
    [] s[n].kind = "Action" -> ActionSelected(s, ctx, n, m)
    [] IsVariableKind(s[n].kind) -> VariableSelected(s, ctx, n, m)
    [] OTHER -> CtxSelected(s, ctx, n)

\* ------------------------------------------------------------------ help and candidates

\* Node.visible, Alias.visible, and a visible keyword that answers False
RECURSIVE Visible(_, _, _, _)
RECURSIVE AnyVisible(_, _, _, _)
AnyVisible(s, ctx, items, fuel) ==
  IF items = <<>> THEN No
  ELSE IF Head(items).err # "none" THEN Fails(Head(items).err)
  ELSE FirstValid(Visible(s, ctx, Head(items).node, fuel), AnyVisible(s, ctx, Tail(items), fuel))

Visible(s, ctx, n, fuel) ==
  IF fuel = 0 THEN Fails("RuntimeError")
  ELSE IF s[n].hidden THEN No
  ELSE IF s[n].kind = "Alias" THEN AnyVisible(s, ctx, Follow(s, ctx, n, fuel - 1), fuel - 1)
  ELSE Yes

\* Context.last_node as it would be if it were always the final node of the trail
FinalNode(ctx) == ctx.trail[Len(ctx.trail)].node

\* Context.last_node
CtxLastNode(ctx) ==
  IF ~ctx.trail[Len(ctx.trail)].match.some \/ ctx.trail[Len(ctx.trail)].match.len > 0
  THEN ctx.trail[Len(ctx.trail)].node
  ELSE ctx.trail[Len(ctx.trail) - 1].node

\* The context left by the valid() calls of Node.children on each child in
\* turn: Node.valid asks for the counter unless traversals is 0, and
\* Variable.valid answers from vars alone when a long enough value is there
ReadsCounter(s, ctx, c) ==
  /\ s[c].traversals # 0
  /\ ~(/\ IsVariableKind(s[c].kind) /\ s[c].traversals = 1
       /\ s[c].name \in DOMAIN ctx.vars
       /\ (HasLen(ctx.vars[s[c].name]) => LenOf(ctx.vars[s[c].name]) >= 1))

RECURSIVE AfterValid(_, _, _)
AfterValid(s, ctx, kids) ==
  IF kids = <<>> THEN ctx
  ELSE AfterValid(s,
                  IF ReadsCounter(s, ctx, Head(kids))
                  THEN AfterTraversed(ctx, Path(s, Head(kids))) ELSE ctx,
                  Tail(kids))

\* The context left by last_node.children(context, follow=True), the walk
\* both help() and candidates() make
AfterChildren(s, ctx) == AfterValid(s, ctx, Iter(s, CtxLastNode(ctx)))

\* Context.candidates(text)
RECURSIVE CandidatesOver(_, _, _, _)
CandidatesOver(s, ctx, items, text) ==
  IF items = <<>> THEN Yielded(<<>>)
  ELSE IF Head(items).err # "none" THEN Broken(Head(items).err)
  ELSE Then(NodeCandidates(s, ctx, Head(items).node, text),
            CandidatesOver(s, ctx, Tail(items), text))

CtxCandidates(s, ctx, text) ==
  CandidatesOver(s, ctx, Children(s, ctx, CtxLastNode(ctx), TRUE, MaxDepth), text)

\* Python's tuple order on (group, order, key, text)
RowLess(a, b) ==
  IF a.group # b.group THEN a.group < b.group
  ELSE IF a.order # b.order THEN a.order < b.order
  ELSE IF a.key # b.key THEN StrLess(a.key, b.key)
  ELSE StrLess(a.text, b.text)

\* list.sort() of the rows
RECURSIVE InsertRow(_, _)
InsertRow(row, rows) ==
  IF rows = <<>> THEN <<row>>
  ELSE IF RowLess(row, Head(rows)) THEN <<row>> \o rows
  ELSE <<Head(rows)>> \o InsertRow(row, Tail(rows))

RECURSIVE SortRows(_)
SortRows(rows) == IF rows = <<>> THEN <<>> ELSE InsertRow(Head(rows), SortRows(Tail(rows)))

\* add_help(node) of HelpParser.__init__
AddHelp(node) ==
  [i \in 1..Len(HelpOf(node)) |->
     [group |-> node.group, order |-> node.order,
      key |-> HelpOf(node)[i].key, text |-> HelpOf(node)[i].text]]

\* `if child.visible(context): add_help(child)`
WhenVisible(v, rows, rest) ==
  IF v.err # "none" THEN Broken(v.err) ELSE After(IF v.ok THEN rows ELSE <<>>, rest)

\* the loop of HelpParser.__init__ over node.children(context, follow=True)
RECURSIVE HelpOver(_, _, _)
HelpOver(s, ctx, items) ==
  IF items = <<>> THEN Yielded(<<>>)
  ELSE IF Head(items).err # "none" THEN Broken(Head(items).err)
  ELSE WhenVisible(Visible(s, ctx, Head(items).node, MaxDepth), AddHelp(s[Head(items).node]),
                   HelpOver(s, ctx, Tail(items)))

\* the rows as they would be if the enumerator kept them in the order found
Unsorted(found) == found

\* self.help.sort()
Sorted(found) == IF found.err # "none" THEN Broken(found.err) ELSE Yielded(SortRows(found.items))

\* HelpParser.__init__
HelpParser(s, ctx, n) == Sorted(HelpOver(s, ctx, Children(s, ctx, n, TRUE, MaxDepth)))

\* HelpParser.__iter__
HelpIter(rows) == [i \in 1..Len(rows) |-> <<rows[i].group, rows[i].key, rows[i].text>>]

\* Context.help
CtxHelp(s, ctx) == HelpParser(s, ctx, CtxLastNode(ctx))

\* ------------------------------------------------------------------ parser

\* The loop of Parser.parse's inner function: the first followed child that
\* is valid and matches, the exception the iteration raises first, or nothing.
Found(n, m) == [node |-> n, match |-> m, err |-> "none"]
NotFound == [node |-> 0, match |-> NoneMatch, err |-> "none"]
SearchFails(e) == [node |-> 0, match |-> NoneMatch, err |-> e]

\* `if subnode.valid(context): submatch = subnode.match(context)`
TryNode(n, v, mm) ==
  IF v.err # "none" THEN SearchFails(v.err)
  ELSE IF ~v.ok THEN NotFound
  ELSE IF mm.err # "none" THEN SearchFails(mm.err)
  ELSE IF ~mm.match.some THEN NotFound
  ELSE Found(n, mm.match)

\* the loop as it would be if it kept looking after a match and took the last one
LastOf(r, rest) ==
  IF r.err # "none" THEN r
  ELSE IF rest.err # "none" \/ rest.node # 0 THEN rest
  ELSE r

\* `return parse(subnode, submatch)` at the first match ends the loop
FirstOf(r, rest) == IF r.err # "none" \/ r.node # 0 THEN r ELSE rest

RECURSIVE FirstMatch(_, _, _)
FirstMatch(s, ctx, items) ==
  IF items = <<>> THEN NotFound
  ELSE IF Head(items).err # "none" THEN SearchFails(Head(items).err)
  ELSE FirstOf(TryNode(Head(items).node, Valid(s, ctx, Head(items).node, MaxDepth),
                       Match(s, ctx, Head(items).node)),
               FirstMatch(s, ctx, Tail(items)))

\* Parser.parse's inner parse(node, match), step by step
Entered(ctx) ==
  [ctx EXCEPT !.trail = Append(@, [node |-> ctx.pending.node, match |-> ctx.pending.match]),
              !.pending = NoPending]

Advanced(s, ctx, n, m) == IF m.some THEN Advance(s, ctx, n) ELSE ctx

AfterSelected(s, ctx, n, m) == IF ctx.status = "raised" THEN ctx ELSE Selected(s, ctx, n, m)

Proceed(ctx, nx) ==
  IF nx.err # "none" THEN Raise(ctx, nx.err)
  ELSE IF nx.node = 0 THEN [ctx EXCEPT !.status = "parsed"]
  ELSE [ctx EXCEPT !.pending = [node |-> nx.node, match |-> nx.match]]

Descend(s, ctx, n) ==
  IF ctx.status = "raised" THEN ctx
  ELSE Proceed(ctx, FirstMatch(s, ctx, NextNodes(s, ctx, n)))

\* One call of Parser.parse's inner parse(node, match), for the pending pair;
\* the interpreter's recursion limit ends a descent that does not end itself.
ParseNode(s, ctx) ==
  IF Len(ctx.trail) >= RecursionLimit
  THEN Raise([ctx EXCEPT !.pending = NoPending], "RuntimeError")
  ELSE Descend(s, AfterSelected(s, Advanced(s, Entered(ctx), ctx.pending.node, ctx.pending.match),
                                ctx.pending.node, ctx.pending.match),
               ctx.pending.node)

\* The grammar as it would be after a call of the inner parse that moved the
\* node it entered behind its siblings (most recently used last)
GrammarReordered(s, ctx) == [s EXCEPT ![ctx.pending.node].order = @ + 1]

\* The grammar after a call of the inner parse: advance, selected and next
\* assign no attribute of any node, all they write is in the context
GrammarAfterParse(s, ctx) == s

\* The value a user callback returns.
ReturnOf(callback) == <<"result of", callback>>

\* the arguments before the keywords in Action.terminal's call
Positionals(node, wuc) ==
  IF node.with_user_context = "True" \/ (node.with_user_context = "None" /\ wuc)
  THEN <<"user_context">> ELSE <<>>

\* Action.terminal
ActionTerminal(s, wuc, ctx, n) ==
  CASE s[n].callback = "None" ->
         [ctx EXCEPT !.status = "exec_raised", !.err = "TypeError"]
    [] s[n].callback = "unset" ->
         [ctx EXCEPT !.status = "exec_raised", !.err = "UnexpectedEOL"]
    [] OTHER ->
         [ctx EXCEPT !.status = "executed",
                     !.calls = Append(@, [callback |-> s[n].callback, node |-> n,
                                         args |-> Positionals(s[n], wuc),
                                         kwargs |-> ctx.vars]),
                     !.result = ReturnOf(s[n].callback)]

\* terminal(context) of each node class
Terminal(s, wuc, ctx, n) ==
  CASE s[n].kind = "Grammar" -> [ctx EXCEPT !.status = "executed", !.result = <<"None">>]
    [] s[n].kind = "Action" -> ActionTerminal(s, wuc, ctx, n)
    [] OTHER -> [ctx EXCEPT !.status = "exec_raised", !.err = "UnexpectedEOL"]

\* Context.execute as it would be without its check of the remaining input
ExecuteUnchecked(s, wuc, ctx) == Terminal(s, wuc, ctx, ctx.trail[Len(ctx.trail)].node)

\* Context.execute
ContextExecute(s, wuc, ctx) ==
  IF ~IsBlank(Remaining(ctx.command, ctx.cursor))
  THEN [ctx EXCEPT !.status = "exec_raised", !.err = "InvalidToken"]
  ELSE Terminal(s, wuc, ctx, ctx.trail[Len(ctx.trail)].node)

\* ------------------------------------------------------------------ grammars

\* One construction call: parent(child) when k is empty, parent(k=child) otherwise.
Positional(p, c) == [p |-> p, k |-> <<>>, c |-> c]
Named(p, k, c) == [p |-> p, k |-> k, c |-> c]

RECURSIVE Build(_, _)
Build(s, ops) ==
  IF ops = <<>> THEN s
  ELSE Build(IF Head(ops).k = <<>> THEN CallAnon(s, Head(ops).p, Head(ops).c)
             ELSE CallNamed(s, Head(ops).p, Head(ops).k, Head(ops).c),
             Tail(ops))

PlainNode == NodeInit("Node", Unset, NoName, NoOpts)
Traversals(n) == [NoOpts EXCEPT !.traversals = n]
AbsPath(comps) == [abs |-> TRUE, comps |-> comps]
RelPath(comps) == [abs |-> FALSE, comps |-> comps]
Root == 1

\* cly/test.py test_basic, with the tutorial's quit command beside it:
\*   Grammar(e=Node(t=Variable(Action(echo))), m=Node(Action(quit)))
GBasic ==
  Build(<<GrammarInit, PlainNode, VariableInit("Variable", NoName, NoOpts),
          ActionInit("echo", "None", NoOpts), PlainNode,
          ActionInit("quit", "None", NoOpts)>>,
        <<Positional(3, 4), Named(2, <<"t">>, 3), Positional(5, 6),
          Named(Root, <<"e">>, 2), Named(Root, <<"m">>, 5)>>)

\* cly/test.py test_integer_types:
\*   Grammar(e=Node(t=Variable(traversals=0)(Alias('/e/*'), Action(echo))))
GList ==
  Build(<<GrammarInit, PlainNode, VariableInit("Variable", NoName, Traversals(0)),
          AliasInit(AbsPath(<< <<"e">>, <<"*">> >>)),
          ActionInit("echo", "None", NoOpts)>>,
        <<Named(Root, <<"e">>, 2), Named(2, <<"t">>, 3), Positional(3, 4),
          Positional(3, 5)>>)

\* cly/test.py test_group, attached in the order Grammar.from_xml attaches:
\*   e -> Group(traversals=0) -> t=Variable -> Alias('../../*'), Action(echo)
GGroup ==
  Build(<<GrammarInit, PlainNode, GroupInit(Traversals(0)),
          VariableInit("Variable", NoName, NoOpts),
          AliasInit(RelPath(<< <<".", ".">>, <<".", ".">>, <<"*">> >>)),
          ActionInit("echo", "None", NoOpts)>>,
        <<Named(Root, <<"e">>, 2), Positional(2, 3), Named(3, <<"t">>, 4),
          Positional(4, 5), Positional(4, 6)>>)

\* doc/tutorial.py, with a Variable where it has a File:
\*   Grammar(e=Node(f=Variable(traversals=2)(Action(cat), Alias('..'))))
GTwo ==
  Build(<<GrammarInit, PlainNode, VariableInit("Variable", NoName, Traversals(2)),
          ActionInit("cat", "None", NoOpts),
          AliasInit(RelPath(<< <<".", ".">> >>))>>,
        <<Positional(3, 4), Positional(3, 5), Named(2, <<"f">>, 3),
          Named(Root, <<"e">>, 2)>>)

\* Children of several groups and orders, one of them reached through a Group:
\*   Grammar(Group()(m=Node(Action(one))), e=Variable(Action(two)),
\*           em=Node(group=1)(Action(three)), b=Variable(order=1))
GOrder ==
  Build(<<GrammarInit, GroupInit(NoOpts), PlainNode, ActionInit("one", "None", NoOpts),
          VariableInit("Variable", NoName, NoOpts), ActionInit("two", "None", NoOpts),
          NodeInit("Node", Unset, NoName, [NoOpts EXCEPT !.group = 1]),
          ActionInit("three", "None", NoOpts),
          VariableInit("Variable", NoName, [NoOpts EXCEPT !.order = 1])>>,
        <<Positional(3, 4), Named(2, <<"m">>, 3), Positional(5, 6), Positional(7, 8),
          Positional(Root, 2), Named(Root, <<"e">>, 5), Named(Root, <<"e", "m">>, 7),
          Named(Root, <<"b">>, 9)>>)

\* Two Variables writing one variable:
\*   Grammar(a=Variable(var_name='v', traversals=0)(
\*             b=Variable(var_name='v')(Action(echo)), c=Alias('/a')))
GShare ==
  Build(<<GrammarInit, VariableInit("Variable", <<"v">>, Traversals(0)),
          VariableInit("Variable", <<"v">>, NoOpts),
          ActionInit("echo", "None", NoOpts), AliasInit(AbsPath(<< <<"a">> >>))>>,
        <<Positional(3, 4), Named(2, <<"b">>, 3), Named(2, <<"c">>, 5),
          Named(Root, <<"a">>, 2)>>)

\* The same two Variables the other way round:
\*   Grammar(a=Variable(var_name='v')(b=Variable(var_name='v', traversals=0)(Action(echo))))
GShareList ==
  Build(<<GrammarInit, VariableInit("Variable", <<"v">>, NoOpts),
          VariableInit("Variable", <<"v">>, Traversals(0)),
          ActionInit("echo", "None", NoOpts)>>,
        <<Positional(3, 4), Named(2, <<"b">>, 3), Named(Root, <<"a">>, 2)>>)

\* A Group that aliases lead to:
\*   Grammar(g=Group()(e=Node(traversals=0)(Alias('/g'))), a=Alias('/g'))
GGroupLoop ==
  Build(<<GrammarInit, GroupInit(NoOpts),
          NodeInit("Node", Unset, NoName, Traversals(0)),
          AliasInit(AbsPath(<< <<"g">> >>)), AliasInit(AbsPath(<< <<"g">> >>))>>,
        <<Positional(3, 4), Named(2, <<"e">>, 3), Named(Root, <<"g">>, 2),
          Named(Root, <<"a">>, 5)>>)

\* An Action with an Alias back to it:
\*   Grammar(a=Action(echo, traversals=0)(Alias('..')))
GActionLoop ==
  Build(<<GrammarInit, ActionInit("echo", "None", Traversals(0)),
          AliasInit(RelPath(<< <<".", ".">> >>))>>,
        <<Positional(2, 3), Named(Root, <<"a">>, 2)>>)

\* An Action constructed without a callback, and one that takes the user context:
\*   Grammar(e=Node(Action()), m=Node(Action(quit, with_user_context=True)))
GNoCallback ==
  Build(<<GrammarInit, PlainNode, ActionInit("None", "None", NoOpts), PlainNode,
          ActionInit("quit", "True", NoOpts)>>,
        <<Positional(2, 3), Positional(4, 5), Named(Root, <<"e">>, 2),
          Named(Root, <<"m">>, 4)>>)

Grammars ==
  <<[name |-> "basic", store |-> GBasic],
    [name |-> "list", store |-> GList],
    [name |-> "group", store |-> GGroup],
    [name |-> "two", store |-> GTwo],
    [name |-> "order", store |-> GOrder],
    [name |-> "share", store |-> GShare],
    [name |-> "sharelist", store |-> GShareList],
    [name |-> "grouploop", store |-> GGroupLoop],
    [name |-> "actionloop", store |-> GActionLoop],
    [name |-> "nocallback", store |-> GNoCallback]>>

\* Every command line of at most MaxLen characters.
Commands == UNION {[1..n -> Alphabet] : n \in 0..MaxLen}

\* ------------------------------------------------------------------ state

VARIABLES
  gname,              \* which grammar the parser was constructed with
  store,              \* the nodes of the grammar
  with_user_context,  \* Parser.with_user_context
  command,            \* the command line the caller parses
  ctx,                \* the Context of the latest Parser.parse call
  prev,               \* the Context the call before it returned
  ops,                \* how many construction calls the program has made
  out,                \* what the latest call of help() or candidates() produced
  xml                 \* the document the grammar was loaded from, if it was

vars == <<gname, store, with_user_context, command, ctx, prev, ops, out, xml>>

\* No call of help() or candidates() yet
NoOutput == [op |-> "none", text |-> <<>>, items |-> <<>>, err |-> "none"]

NoContext == [NewContext(<<>>) EXCEPT !.status = "none"]

\* The grammar was not loaded from a document
NoXml == [ok |-> TRUE, root |-> "", body |-> <<>>]

Init ==
  /\ \E i \in 1..Len(Grammars) : gname = Grammars[i].name /\ store = Grammars[i].store
  /\ with_user_context \in BOOLEAN
  /\ command \in Commands
  /\ ctx = NoContext
  /\ prev = NoContext
  /\ ops = 0
  /\ out = NoOutput
  /\ xml = NoXml

\* Parser.parse up to its first call of the inner parse: a fresh Context,
\* entered at the grammar with no match
ParseBegin ==
  /\ ctx.status \in {"none", "parsed", "executed", "exec_raised", "raised"}
  /\ prev' = ctx
  /\ ctx' = [NewContext(command) EXCEPT !.status = "parsing",
                                        !.pending = [node |-> Root, match |-> NoneMatch]]
  /\ UNCHANGED <<gname, store, with_user_context, command, ops, out, xml>>

\* One call of the inner parse(node, match) of Parser.parse
ParseStep ==
  /\ ctx.status = "parsing"
  /\ ctx' = ParseNode(store, ctx)
  /\ store' = GrammarAfterParse(store, ctx)
  /\ UNCHANGED <<gname, with_user_context, command, prev, ops, out, xml>>

\* Context.execute on the context parse returned
Execute ==
  /\ ctx.status = "parsed"
  /\ ctx' = ContextExecute(store, with_user_context, ctx)
  /\ UNCHANGED <<gname, store, with_user_context, command, prev, ops, out, xml>>

Next == ParseBegin \/ ParseStep \/ Execute

Spec == Init /\ [][Next]_vars

\* ------------------------------------------------------------------ construction

\* The most construction calls a program makes.
MaxOps == 3

\* The nodes a program has constructed and not yet attached: a Grammar and
\* three plain Nodes; and the keys it names children by.
BuildPool == <<GrammarInit, PlainNode, PlainNode, PlainNode>>
BuildKeys == {<<"x">>, <<"y">>}

\* Node.__setitem__: self(**{key: child})
SetItem(s, p, k, c) == CallNamed(s, p, k, c)

BuildInit ==
  /\ gname = "build"
  /\ store = BuildPool
  /\ with_user_context = FALSE
  /\ command = <<>>
  /\ ctx = NoContext
  /\ prev = NoContext
  /\ ops = 0
  /\ out = NoOutput
  /\ xml = NoXml

\* p(c) for a node c that is not a Grammar
BuildPositional ==
  /\ \E p \in 1..Len(store) : \E c \in 1..Len(store) :
       /\ store[c].kind # "Grammar"
       /\ store' = CallAnon(store, p, c)
  /\ ops < MaxOps
  /\ ops' = ops + 1
  /\ UNCHANGED <<gname, with_user_context, command, ctx, prev, out, xml>>

\* p(k=c)
BuildNamed ==
  /\ \E p \in 1..Len(store) : \E c \in 1..Len(store) : \E k \in BuildKeys :
       store' = CallNamed(store, p, k, c)
  /\ ops < MaxOps
  /\ ops' = ops + 1
  /\ UNCHANGED <<gname, with_user_context, command, ctx, prev, out, xml>>

\* p(g) for a Grammar g
BuildMerge ==
  /\ \E p \in 1..Len(store) : \E g \in 1..Len(store) :
       /\ store[g].kind = "Grammar"
       /\ store' = MergeGrammar(store, p, g)
  /\ ops < MaxOps
  /\ ops' = ops + 1
  /\ UNCHANGED <<gname, with_user_context, command, ctx, prev, out, xml>>

\* p[k] = c
BuildSetItem ==
  /\ \E p \in 1..Len(store) : \E c \in 1..Len(store) : \E k \in BuildKeys :
       store' = SetItem(store, p, k, c)
  /\ ops < MaxOps
  /\ ops' = ops + 1
  /\ UNCHANGED <<gname, with_user_context, command, ctx, prev, out, xml>>

\* del p[k]
BuildDelItem ==
  /\ \E p \in 1..Len(store) : \E k \in DOMAIN store[p].children :
       store' = DelItem(store, p, k)
  /\ ops < MaxOps
  /\ ops' = ops + 1
  /\ UNCHANGED <<gname, with_user_context, command, ctx, prev, out, xml>>

BuildNext ==
  BuildPositional \/ BuildNamed \/ BuildMerge \/ BuildSetItem \/ BuildDelItem

SpecBuild == BuildInit /\ [][BuildNext]_vars

\* ------------------------------------------------------------------ groups and attributes

\* The most calls a program makes on the nodes below.
MaxCalls == 3

\* node(pattern=v), node(separator=v): Node.__call__ hands a keyword that is
\* not a node to setattr, and pattern and separator are plain attributes, so
\* nothing is compiled again; a Group then re-applies its overrides
CallPattern(s, n, v) == AfterCall([s EXCEPT ![n].pattern = v], n)
CallSeparator(s, n, v) == AfterCall([s EXCEPT ![n].separator = v], n)

\* Two Groups with different overrides and two plain Nodes, none attached
GroupPool ==
  <<GroupInit([NoOpts EXCEPT !.order = 1]), GroupInit([NoOpts EXCEPT !.order = 2, !.group = 2]),
    PlainNode, PlainNode>>

AttrPatterns == {PatLit(<<"m">>), PatWord}
AttrSeparators == {PatLit(<<",">>)}

\* c is p or below p
RECURSIVE Within(_, _, _, _)
Within(s, p, c, fuel) ==
  \/ c = p
  \/ fuel > 0 /\ \E k \in DOMAIN s[p].children : Within(s, s[p].children[k], c, fuel - 1)

\* The programs looked at build trees: a node is attached once, and never
\* beneath itself
Attachable(s, p, c) == s[c].parent = 0 /\ ~Within(s, c, p, Len(s))

AttrInit ==
  /\ gname = "attr"
  /\ store = GroupPool
  /\ with_user_context = FALSE
  /\ command = <<>>
  /\ ctx = NoContext
  /\ prev = NoContext
  /\ ops = 0
  /\ out = NoOutput
  /\ xml = NoXml

\* p(k=c)
AttrNamed ==
  /\ ops < MaxCalls
  /\ \E p \in 1..Len(store) : \E c \in 1..Len(store) : \E k \in BuildKeys :
       /\ Attachable(store, p, c)
       /\ store' = CallNamed(store, p, k, c)
  /\ ops' = ops + 1
  /\ UNCHANGED <<gname, with_user_context, command, ctx, prev, out, xml>>

\* p(c)
AttrPositional ==
  /\ ops < MaxCalls
  /\ \E p \in 1..Len(store) : \E c \in 1..Len(store) :
       /\ Attachable(store, p, c)
       /\ store' = CallAnon(store, p, c)
  /\ ops' = ops + 1
  /\ UNCHANGED <<gname, with_user_context, command, ctx, prev, out, xml>>

\* n(pattern=v)
AttrPattern ==
  /\ ops < MaxCalls
  /\ \E n \in 1..Len(store) : \E v \in AttrPatterns : store' = CallPattern(store, n, v)
  /\ ops' = ops + 1
  /\ UNCHANGED <<gname, with_user_context, command, ctx, prev, out, xml>>

\* n(separator=v)
AttrSeparator ==
  /\ ops < MaxCalls
  /\ \E n \in 1..Len(store) : \E v \in AttrSeparators : store' = CallSeparator(store, n, v)
  /\ ops' = ops + 1
  /\ UNCHANGED <<gname, with_user_context, command, ctx, prev, out, xml>>

AttrNext == AttrNamed \/ AttrPositional \/ AttrPattern \/ AttrSeparator

SpecAttr == AttrInit /\ [][AttrNext]_vars

\* ------------------------------------------------------------------ two parses

\* The longest command of the first of two parses running at once; the second
\* parses a command one character shorter at most.
MaxPair == 3

PairGrammars == {"list", "two", "share"}

\* The Context of Parser.parse when it calls the inner parse for the grammar
Begun(text) ==
  [NewContext(text) EXCEPT !.status = "parsing",
                           !.pending = [node |-> Root, match |-> NoneMatch]]

\* Parser.parse run on its own, from its first inner call to its return or raise
RECURSIVE ParseFrom(_, _)
ParseFrom(s, c) == IF c.status # "parsing" THEN c ELSE ParseFrom(s, ParseNode(s, c))

Parse(s, text) == ParseFrom(s, Begun(text))

\* Two threads have each called parser.parse: ctx is the Context of the first,
\* prev the Context of the second.
PairInit ==
  /\ gname \in PairGrammars
  /\ \E i \in 1..Len(Grammars) : gname = Grammars[i].name /\ store = Grammars[i].store
  /\ with_user_context = FALSE
  /\ command \in UNION {[1..n -> Alphabet] : n \in 0..MaxPair}
  /\ ctx = Begun(command)
  /\ prev \in {Begun(c) : c \in UNION {[1..n -> Alphabet] : n \in 0..(MaxPair - 1)}}
  /\ ops = 0
  /\ out = NoOutput
  /\ xml = NoXml

\* One call of the inner parse in the first thread
StepFirst ==
  /\ ctx.status = "parsing"
  /\ ctx' = ParseNode(store, ctx)
  /\ store' = GrammarAfterParse(store, ctx)
  /\ UNCHANGED <<gname, with_user_context, command, prev, ops, out, xml>>

\* One call of the inner parse in the second thread
StepSecond ==
  /\ prev.status = "parsing"
  /\ prev' = ParseNode(store, prev)
  /\ store' = GrammarAfterParse(store, prev)
  /\ UNCHANGED <<gname, with_user_context, command, ctx, ops, out, xml>>

PairNext == StepFirst \/ StepSecond

SpecPair == PairInit /\ [][PairNext]_vars

\* ------------------------------------------------------------------ typed variables

\* The longest command made of the characters of TypedAlphabet.
MaxTyped == 3

TypedAlphabet == {" ", ".", "0", "1", "n", "o", "N", "O"}

\* builder.py, doctest of Integer, without the help string:  Grammar(n=Integer())
GInteger ==
  Build(<<GrammarInit, VariableInit("Integer", NoName, NoOpts)>>,
        <<Named(Root, <<"n">>, 2)>>)

\* builder.py, doctest of Boolean, without the help string:  Grammar(b=Boolean())
GBoolean ==
  Build(<<GrammarInit, VariableInit("Boolean", NoName, NoOpts)>>,
        <<Named(Root, <<"b">>, 2)>>)

\* A variable with a parse hook that rejects, taken any number of times:
\*   Grammar(c=Checked(traversals=0)(Alias('/c'), Action(callback=echo)))
GChecked ==
  Build(<<GrammarInit, VariableInit("Checked", NoName, Traversals(0)),
          AliasInit(AbsPath(<< <<"c">> >>)), ActionInit("echo", "None", NoOpts)>>,
        <<Positional(2, 3), Positional(2, 4), Named(Root, <<"c">>, 2)>>)

\* builder.py, doctest of Word, without the help string:  Grammar(w=Word())
GWord ==
  Build(<<GrammarInit, VariableInit("Word", NoName, NoOpts)>>,
        <<Named(Root, <<"w">>, 2)>>)

\* An Integer that an Alias under it leads back to:
\*   Grammar(n=Integer()(Alias('/n'), Action(callback=echo)))
GAgain ==
  Build(<<GrammarInit, VariableInit("Integer", NoName, NoOpts),
          AliasInit(AbsPath(<< <<"n">> >>)), ActionInit("echo", "None", NoOpts)>>,
        <<Positional(2, 3), Positional(2, 4), Named(Root, <<"n">>, 2)>>)

\* Two Variables of one name, one under the other:
\*   Grammar(t=Variable()(t=Variable()(Action(callback=echo))))
GSameName ==
  Build(<<GrammarInit, VariableInit("Variable", NoName, NoOpts),
          VariableInit("Variable", NoName, NoOpts), ActionInit("echo", "None", NoOpts)>>,
        <<Positional(3, 4), Named(2, <<"t">>, 3), Named(Root, <<"t">>, 2)>>)

TypedGrammars ==
  <<[name |-> "integer", store |-> GInteger],
    [name |-> "boolean", store |-> GBoolean],
    [name |-> "word", store |-> GWord],
    [name |-> "checked", store |-> GChecked]>>

\* The commands of the doctests of Integer, Boolean and Word, with case variants
DocCommands ==
  { <<"1", "2", "3", ".", "4", "5">>, <<"1", "2", "3", "4", "5">>, <<"0", "0", "7">>,
    <<"a", "1", "2", "3">>, <<"1", "2", "3">>,
    <<"t", "r", "u", "e">>, <<"T", "r", "u", "e">>, <<"Y", "e", "S">>, <<"y", "e", "s">>,
    <<"e", "n", "a", "b", "l", "e">>, <<"e", "n", "a", "b", "l", "e", "d">>,
    <<"d", "i", "s", "a", "b", "l", "e", "d">>, <<"O", "f", "F", " ">> }

TypedCommands == DocCommands \cup UNION {[1..n -> TypedAlphabet] : n \in 0..MaxTyped}

TypedInit ==
  /\ \E i \in 1..Len(TypedGrammars) :
       gname = TypedGrammars[i].name /\ store = TypedGrammars[i].store
  /\ with_user_context \in BOOLEAN
  /\ command \in TypedCommands
  /\ ctx = NoContext
  /\ prev = NoContext
  /\ ops = 0
  /\ out = NoOutput
  /\ xml = NoXml

SpecTyped == TypedInit /\ [][Next]_vars

\* The longest command given to the grammars whose Variables are asked for
\* their validity after a capture, and the characters it is made of
MaxVars == 3
VarsAlphabet == {" ", "1", "n", "o"}

VarsGrammars ==
  <<[name |-> "again", store |-> GAgain],
    [name |-> "samename", store |-> GSameName]>>

VarsInit ==
  /\ \E i \in 1..Len(VarsGrammars) :
       gname = VarsGrammars[i].name /\ store = VarsGrammars[i].store
  /\ with_user_context \in BOOLEAN
  /\ command \in UNION {[1..n -> VarsAlphabet] : n \in 0..MaxVars}
  /\ ctx = NoContext
  /\ prev = NoContext
  /\ ops = 0
  /\ out = NoOutput
  /\ xml = NoXml

SpecVars == VarsInit /\ [][Next]_vars

\* ------------------------------------------------------------------ declarative loader

\* An element of an XML document, in document order: the node cls(**attributes)
\* constructs for it, its name attribute (<<>> when it has none), and how deep
\* it is below the grammar element.
Element(node, name, depth) == [node |-> node, name |-> name, depth |-> depth]

\* The nodes of a document before any is attached: the Grammar, then one node
\* for each element
Constructed(doc) == <<GrammarInit>> \o [i \in 1..Len(doc) |-> doc[i].node]

\* parent(**{name: node}) or parent(node)
AttachAs(s, p, k, c) == IF k = <<>> THEN CallAnon(s, p, c) ELSE CallNamed(s, p, k, c)

\* parse(parent, xnode) of Grammar.from_xml: an element is attached to its
\* parent, then its children are parsed, then the siblings after it.  open
\* holds the grammar and the elements the recursion is inside of.
RECURSIVE XmlParse(_, _, _, _)
XmlParse(s, doc, i, open) ==
  IF i > Len(doc) THEN s
  ELSE XmlParse(AttachAs(s, open[doc[i].depth], doc[i].name, i + 1), doc, i + 1,
                Append(SubSeq(open, 1, doc[i].depth), i + 1))

\* Grammar.from_xml
FromXml(doc) == XmlParse(Constructed(doc), doc, 1, <<Root>>)

\* The same nesting written as one expression, Grammar(a=Node(b=Node(...)), ...):
\* Python evaluates the arguments of a call first, so a node is attached to
\* its parent once its own children are attached.
RECURSIVE CloseTo(_, _, _, _)
CloseTo(s, doc, open, keep) ==
  IF Len(open) <= keep THEN s
  ELSE CloseTo(AttachAs(s, open[Len(open) - 1], doc[open[Len(open)] - 1].name,
                        open[Len(open)]),
               doc, SubSeq(open, 1, Len(open) - 1), keep)

RECURSIVE Nested(_, _, _, _)
Nested(s, doc, i, open) ==
  IF i > Len(doc) THEN CloseTo(s, doc, open, 1)
  ELSE Nested(CloseTo(s, doc, open, doc[i].depth), doc, i + 1,
              Append(SubSeq(open, 1, doc[i].depth), i + 1))

Programmatic(doc) == Nested(Constructed(doc), doc, 1, <<Root>>)

\* cly/test.py test_integer_types:
\*   <grammar><node name='e'><variable name='t' traversals='0'>
\*     <alias target='/e/*'/><action callback='echo'/></variable></node></grammar>
XList ==
  <<Element(PlainNode, <<"e">>, 1),
    Element(VariableInit("Variable", NoName, Traversals(0)), <<"t">>, 2),
    Element(AliasInit(AbsPath(<< <<"e">>, <<"*">> >>)), <<>>, 3),
    Element(ActionInit("echo", "None", NoOpts), <<>>, 3)>>

\* cly/test.py test_group, the Group overriding group and order as well, and a
\* second command beside the variable:
\*   <grammar><node name='e'><group traversals='0' group='1' order='1'>
\*     <variable name='t'><alias target='../../*'/><action callback='echo'/></variable>
\*     </group><node name='m'><action callback='quit'/></node></node></grammar>
XGroup ==
  <<Element(PlainNode, <<"e">>, 1),
    Element(GroupInit([traversals |-> 0, group |-> 1, order |-> 1]), <<>>, 2),
    Element(VariableInit("Variable", NoName, NoOpts), <<"t">>, 3),
    Element(AliasInit(RelPath(<< <<".", ".">>, <<".", ".">>, <<"*">> >>)), <<>>, 4),
    Element(ActionInit("echo", "None", NoOpts), <<>>, 4),
    Element(PlainNode, <<"m">>, 2),
    Element(ActionInit("quit", "None", NoOpts), <<>>, 3)>>

XmlDocs ==
  <<[name |-> "xmllist", doc |-> XList],
    [name |-> "xmlgroup", doc |-> XGroup]>>

\* ------------------------------------------------------------------ help calls

\* The longest command parsed before help() and candidates() are called.
MaxHelp == 3

\* Children of several groups, kinds and help providers:
\*   Grammar(e=Node('E')(b=Node('B'), c=Node('C', group=2), h=Node('H', visible=no),
\*                       s=Node('S', candidates=static_candidates('em', 'm', '<e>')),
\*                       v=Variable('V'), m=Node(Help.pair('<m>', 'M'))(Action()),
\*                       Action()))
GHelp ==
  Build(<<GrammarInit,
          [PlainNode EXCEPT !.help = LazyHelp(<<"E">>)],
          [PlainNode EXCEPT !.help = LazyHelp(<<"B">>)],
          [NodeInit("Node", Unset, NoName, [NoOpts EXCEPT !.group = 2]) EXCEPT
             !.help = LazyHelp(<<"C">>)],
          [PlainNode EXCEPT !.help = LazyHelp(<<"H">>), !.hidden = TRUE],
          [PlainNode EXCEPT !.help = LazyHelp(<<"S">>),
                            !.candidates = StaticCandidates(<< <<"e", "m">>, <<"m">>,
                                                               <<"<", "e", ">">> >>)],
          [VariableInit("Variable", NoName, NoOpts) EXCEPT !.help = LazyHelp(<<"V">>)],
          [PlainNode EXCEPT !.help = HelpPair(<<"<", "m", ">">>, <<"M">>)],
          ActionInit("echo", "None", NoOpts), ActionInit("quit", "None", NoOpts)>>,
        <<Positional(8, 9), Named(2, <<"b">>, 3), Named(2, <<"c">>, 4), Named(2, <<"h">>, 5),
          Named(2, <<"s">>, 6), Named(2, <<"v">>, 7), Named(2, <<"m">>, 8),
          Positional(2, 10), Named(Root, <<"e">>, 2)>>)

\* The grammar of the doctests of Context.candidates and Context.help with an
\* Alias beside it:  Grammar(e=Node('1')(m=Node('2'), e=Node('3')), m=Node('4'),
\*                           a=Alias('/e/*'))
GDoc ==
  Build(<<GrammarInit,
          [PlainNode EXCEPT !.help = LazyHelp(<<"1">>)],
          [PlainNode EXCEPT !.help = LazyHelp(<<"2">>)],
          [PlainNode EXCEPT !.help = LazyHelp(<<"3">>)],
          [PlainNode EXCEPT !.help = LazyHelp(<<"4">>)],
          AliasInit(AbsPath(<< <<"e">>, <<"*">> >>))>>,
        <<Named(2, <<"m">>, 3), Named(2, <<"e">>, 4), Named(Root, <<"e">>, 2),
          Named(Root, <<"m">>, 5), Named(Root, <<"a">>, 6)>>)

\* An Alias inside a Group:  Grammar(Group()(Alias('/e')), e=Node()(Action(echo)))
GAliasInGroup ==
  Build(<<GrammarInit, GroupInit(NoOpts), AliasInit(AbsPath(<< <<"e">> >>)), PlainNode,
          ActionInit("echo", "None", NoOpts)>>,
        <<Positional(2, 3), Positional(4, 5), Positional(Root, 2), Named(Root, <<"e">>, 4)>>)

\* An Alias whose target is an Alias:
\*   Grammar(a=Alias('/b'), b=Alias('/e'), e=Node()(Action(echo)))
GAliasToAlias ==
  Build(<<GrammarInit, AliasInit(AbsPath(<< <<"b">> >>)), AliasInit(AbsPath(<< <<"e">> >>)),
          PlainNode, ActionInit("echo", "None", NoOpts)>>,
        <<Positional(4, 5), Named(Root, <<"a">>, 2), Named(Root, <<"b">>, 3),
          Named(Root, <<"e">>, 4)>>)

\* Nodes whose matches are constrained to their candidates:
\*   Grammar(e=Node('E', match_candidates=True)(Action(callback=echo)),
\*           v=Variable('V', match_candidates=True,
\*                      candidates=static_candidates('em', 'm'))(Action(callback=echo)),
\*           w=Variable('W', match_candidates=True))
GConstrained ==
  Build(<<GrammarInit,
          [PlainNode EXCEPT !.help = LazyHelp(<<"E">>), !.match_candidates = TRUE],
          ActionInit("echo", "None", NoOpts),
          [VariableInit("Variable", NoName, NoOpts) EXCEPT
             !.help = LazyHelp(<<"V">>), !.match_candidates = TRUE,
             !.candidates = StaticCandidates(<< <<"e", "m">>, <<"m">> >>)],
          ActionInit("echo", "None", NoOpts),
          [VariableInit("Variable", NoName, NoOpts) EXCEPT
             !.help = LazyHelp(<<"W">>), !.match_candidates = TRUE]>>,
        <<Positional(2, 3), Positional(4, 5), Named(Root, <<"e">>, 2),
          Named(Root, <<"v">>, 4), Named(Root, <<"w">>, 6)>>)

\* A Group directly inside a Group:
\*   Grammar(Group()(Group()(m=Node('M')), e=Node('E')))
GNested ==
  Build(<<GrammarInit, GroupInit(NoOpts), GroupInit(NoOpts),
          [PlainNode EXCEPT !.help = LazyHelp(<<"M">>)],
          [PlainNode EXCEPT !.help = LazyHelp(<<"E">>)]>>,
        <<Named(3, <<"m">>, 4), Positional(2, 3), Named(2, <<"e">>, 5), Positional(Root, 2)>>)

HelpGrammars ==
  <<[name |-> "help", store |-> GHelp],
    [name |-> "nested", store |-> GNested],
    [name |-> "constrained", store |-> GConstrained],
    [name |-> "doc", store |-> GDoc],
    [name |-> "order", store |-> GOrder],
    [name |-> "list", store |-> GList],
    [name |-> "aliasingroup", store |-> GAliasInGroup],
    [name |-> "aliastoalias", store |-> GAliasToAlias]>>
    \o [i \in 1..Len(XmlDocs) |-> [name |-> XmlDocs[i].name, store |-> FromXml(XmlDocs[i].doc)]]

\* The texts candidates() is called with
HelpTexts == {<<>>, <<"e">>, <<"m">>, <<"e", "m">>, <<"<">>, <<"b">>}

\* What the caller of help() or candidates(text) got
Output(op, text, got) == [op |-> op, text |-> text, items |-> got.items, err |-> got.err]

\* The caller has called parser.parse(command)
HelpInit ==
  /\ \E i \in 1..Len(HelpGrammars) :
       gname = HelpGrammars[i].name /\ store = HelpGrammars[i].store
  /\ with_user_context = FALSE
  /\ command \in UNION {[1..n -> Alphabet] : n \in 0..MaxHelp}
  /\ ctx = Begun(command)
  /\ prev = NoContext
  /\ ops = 0
  /\ out = NoOutput
  /\ xml = NoXml

\* context.help() on the context parse returned; list() of the enumerator
CallHelp ==
  /\ ctx.status \in {"parsed", "executed", "exec_raised"}
  /\ out' = Output("help", <<>>, CtxHelp(store, ctx))
  /\ ctx' = AfterChildren(store, ctx)
  /\ UNCHANGED <<gname, store, with_user_context, command, prev, ops, xml>>

\* list(context.candidates(text)); with text omitted it is the remaining input
CallCandidates ==
  /\ ctx.status \in {"parsed", "executed", "exec_raised"}
  /\ \E text \in HelpTexts \cup {Remaining(ctx.command, ctx.cursor)} :
       out' = Output("candidates", text, CtxCandidates(store, ctx, text))
  /\ ctx' = AfterChildren(store, ctx)
  /\ UNCHANGED <<gname, store, with_user_context, command, prev, ops, xml>>

HelpNext == ParseStep \/ Execute \/ CallHelp \/ CallCandidates

SpecHelp == HelpInit /\ [][HelpNext]_vars

\* ------------------------------------------------------------------ path lookups

\* The longest path a caller hands to find
MaxPath == 3

\* path.split('/'): the pieces between the slashes, empty ones included
RECURSIVE SplitFrom(_, _)
SplitFrom(text, piece) ==
  IF text = <<>> THEN <<piece>>
  ELSE IF Head(text) = "/" THEN <<piece>> \o SplitFrom(Tail(text), <<>>)
  ELSE SplitFrom(Tail(text), Append(piece, Head(text)))

Split(text) == SplitFrom(text, <<>>)

\* filter(None, pieces)
RECURSIVE NonEmpty(_)
NonEmpty(pieces) ==
  IF pieces = <<>> THEN <<>>
  ELSE (IF Head(pieces) = <<>> THEN <<>> ELSE <<Head(pieces)>>) \o NonEmpty(Tail(pieces))

\* What find returns or raises
FoundNode(n) == [items |-> <<n>>, err |-> "none"]
PathError == [items |-> <<>>, err |-> "InvalidNodePath"]
Lookup(hit) == IF hit = 0 THEN PathError ELSE FoundNode(hit)

\* Node.find as it would be if a leading slash sent the search to the root
FindAnchored(s, n, path) ==
  Lookup(Find(s, IF path # <<>> /\ Head(path) = "/" THEN RootOf(s, n) ELSE n,
              NonEmpty(Split(path))))

\* Node.find(path) on node n
NodeFind(s, n, path) == Lookup(Find(s, n, NonEmpty(Split(path))))

\* Parser.find
ParserFind(s, path) == NodeFind(s, Root, path)

\* What Alias.follow yields and how it ends, as find's outcome is written
Follows(items) ==
  IF HasErr(items)
  THEN [items |-> [i \in 1..Len(items) - 1 |-> items[i].node], err |-> items[Len(items)].err]
  ELSE [items |-> [i \in 1..Len(items) |-> items[i].node], err |-> "none"]

\* The Alias doctest, its names shortened in the same order (five, four, one,
\* two as b, c, e, m; three as e; six as a):
\*   Grammar(e=Node('One'), m=Node('Two', e=Node('Three')), c=Alias('../e'),
\*           b=Node('Five', a=Alias('../../*')))
GAliasDoc ==
  Build(<<GrammarInit, PlainNode, PlainNode, PlainNode,
          AliasInit(RelPath(<< <<".", ".">>, <<"e">> >>)), PlainNode,
          AliasInit(RelPath(<< <<".", ".">>, <<".", ".">>, <<"*">> >>))>>,
        <<Named(3, <<"e">>, 4), Named(6, <<"a">>, 7), Named(Root, <<"e">>, 2),
          Named(Root, <<"m">>, 3), Named(Root, <<"c">>, 5), Named(Root, <<"b">>, 6)>>)

\* Aliases whose targets do not exist: one whose target's directory exists,
\* one whose target's directory is missing too, one whose target is reached
\* only through a Group, and one with ? in its target:
\*   Grammar(e=Node()(Group()(m=Node())), a=Alias('/e/x'), b=Alias('/x/m'),
\*           c=Alias('/e/m'), m=Alias('/e/?'))
GMissing ==
  Build(<<GrammarInit, PlainNode, GroupInit(NoOpts), PlainNode,
          AliasInit(AbsPath(<< <<"e">>, <<"x">> >>)),
          AliasInit(AbsPath(<< <<"x">>, <<"m">> >>)),
          AliasInit(AbsPath(<< <<"e">>, <<"m">> >>)),
          AliasInit(AbsPath(<< <<"e">>, <<"?">> >>))>>,
        <<Named(3, <<"m">>, 4), Positional(2, 3), Named(Root, <<"e">>, 2),
          Named(Root, <<"a">>, 5), Named(Root, <<"b">>, 6), Named(Root, <<"c">>, 7),
          Named(Root, <<"m">>, 8)>>)

\* Aliases whose targets are globs that leave some children out:
\*   Grammar(e=Node(), em=Node(), m=Node()(a=Alias('/e*'), b=Alias('/?')))
GGlob ==
  Build(<<GrammarInit, PlainNode, PlainNode, PlainNode,
          AliasInit(AbsPath(<< <<"e", "*">> >>)), AliasInit(AbsPath(<< <<"?">> >>))>>,
        <<Named(4, <<"a">>, 5), Named(4, <<"b">>, 6), Named(Root, <<"e">>, 2),
          Named(Root, <<"e", "m">>, 3), Named(Root, <<"m">>, 4)>>)

\* An Alias to all the nodes beside it:  Grammar(e=Node(), a=Alias('../*'))
GSiblings ==
  Build(<<GrammarInit, PlainNode, AliasInit(RelPath(<< <<".", ".">>, <<"*">> >>))>>,
        <<Named(Root, <<"e">>, 2), Named(Root, <<"a">>, 3)>>)

\* Two Aliases, each to the nodes beside the other:
\*   Grammar(e=Node()(a=Alias('/m/*')), m=Node()(b=Alias('/e/*')))
GMutual ==
  Build(<<GrammarInit, PlainNode, AliasInit(AbsPath(<< <<"m">>, <<"*">> >>)),
          PlainNode, AliasInit(AbsPath(<< <<"e">>, <<"*">> >>))>>,
        <<Named(2, <<"a">>, 3), Named(4, <<"b">>, 5), Named(Root, <<"e">>, 2),
          Named(Root, <<"m">>, 4)>>)

FindGrammars ==
  <<[name |-> "doc", store |-> GDoc],
    [name |-> "aliasdoc", store |-> GAliasDoc],
    [name |-> "missing", store |-> GMissing],
    [name |-> "glob", store |-> GGlob],
    [name |-> "siblings", store |-> GSiblings],
    [name |-> "mutual", store |-> GMutual],
    [name |-> "group", store |-> GGroup]>>

FindPaths == UNION {[1..n -> {"/", "e", "m"}] : n \in 0..MaxPath}

FindCommands ==
  {<<>>, <<"e">>, <<"m">>, <<"e", " ", "m">>, <<"e", " ", "e">>, <<"b">>, <<"e", "m">>}

\* What the caller of find or follow got, and on which node it called it
Answer(op, n, text, got) ==
  [op |-> op, node |-> n, text |-> text, items |-> got.items, err |-> got.err]

FindInit ==
  /\ \E i \in 1..Len(FindGrammars) :
       gname = FindGrammars[i].name /\ store = FindGrammars[i].store
  /\ with_user_context = FALSE
  /\ command \in FindCommands
  /\ ctx = Begun(command)
  /\ prev = NoContext
  /\ ops = 0
  /\ out = NoOutput
  /\ xml = NoXml

\* node.find(path) once parse is over.  find and follow change neither the
\* grammar nor the context, so the first call of a run shows all a call can
\* return.
CallFind ==
  /\ ctx.status \in {"parsed", "raised"}
  /\ out.op = "none"
  /\ \E n \in 1..Len(store) : \E path \in FindPaths :
       out' = Answer("find", n, path, NodeFind(store, n, path))
  /\ UNCHANGED <<gname, store, with_user_context, command, ctx, prev, ops, xml>>

\* list(alias.follow(context)) with the context parse returned
CallFollow ==
  /\ ctx.status \in {"parsed", "raised"}
  /\ out.op = "none"
  /\ \E a \in 1..Len(store) :
       /\ store[a].kind = "Alias"
       /\ out' = Answer("follow", a, <<>>, Follows(AliasFollow(store, ctx, a, MaxDepth)))
  /\ UNCHANGED <<gname, store, with_user_context, command, ctx, prev, ops, xml>>

FindNext == ParseStep \/ CallFind \/ CallFollow

SpecFind == FindInit /\ [][FindNext]_vars

\* ------------------------------------------------------------------ loading a document

\* The most elements below the grammar element of a document
MaxXml == 2

\* The lower-cased names of the Node classes: the keys of node_types (those
\* of the classes modelled here)
NodeTypes == {"node", "group", "alias", "action", "variable", "integer", "boolean"}

\* An element as written: its tag, its name attribute, its depth below the root
XmlTag(tag, name, depth) == [tag |-> tag, name |-> name, depth |-> depth]

\* A document: whether it is well-formed XML, the tag of its root element, and
\* the elements below the root in document order
XmlDocument(ok, root, body) == [ok |-> ok, root |-> root, body |-> body]

\* cls(**attributes) for the elements the documents below are written with:
\* <node name=.../>, <variable name=.../>, <action callback='echo'/>
XmlNode(tag) ==
  CASE tag = "node" -> PlainNode
    [] tag = "variable" -> VariableInit("Variable", NoName, NoOpts)
    [] tag = "action" -> ActionInit("echo", "None", NoOpts)

XmlFailed(err) == [err |-> err, store |-> <<>>]
XmlLoaded(s) == [err |-> "none", store |-> s]

\* The exception of the first element parse comes to whose tag is not a key
\* of node_types: the message is formatted with `name`, a local of parse that
\* is assigned only further down, so formatting it raises UnboundLocalError
\* before XMLParseError is constructed.
UnknownKind == "UnboundLocalError"

\* Grammar.from_xml(xml): minidom.parseString, the check of the root element,
\* then the inner parse over the elements
FromXmlSource(src) ==
  IF ~src.ok THEN XmlFailed("XMLParseError")
  ELSE IF src.root # "grammar" THEN XmlFailed("XMLParseError")
  ELSE IF \E i \in 1..Len(src.body) : src.body[i].tag \notin NodeTypes
       THEN XmlFailed(UnknownKind)
  ELSE XmlLoaded(FromXml([i \in 1..Len(src.body) |->
                            Element(XmlNode(src.body[i].tag), src.body[i].name,
                                    src.body[i].depth)]))

\* The elements documents are written with, and the ways to nest them
XmlItems ==
  {XmlTag("node", <<"e">>, d) : d \in 1..MaxXml} \cup
  {XmlTag("node", <<"m">>, d) : d \in 1..MaxXml} \cup
  {XmlTag("variable", <<"t">>, d) : d \in 1..MaxXml} \cup
  {XmlTag("action", <<>>, d) : d \in 1..MaxXml} \cup
  {XmlTag("bogus", <<>>, d) : d \in 1..MaxXml}

WellNested(body) ==
  \A i \in 1..Len(body) : body[i].depth <= (IF i = 1 THEN 1 ELSE body[i - 1].depth + 1)

XmlBodies == {b \in UNION {[1..n -> XmlItems] : n \in 0..MaxXml} : WellNested(b)}

XmlRoots == {"grammar", "Grammar", "node"}

XmlCommands == {<<>>, <<"e">>, <<"m">>, <<"e", " ", "m">>, <<"e", " ", "e">>}

\* The program holds a document and has loaded nothing yet
XmlInit ==
  /\ gname = "xml"
  /\ store = <<>>
  /\ with_user_context = FALSE
  /\ command \in XmlCommands
  /\ ctx = NoContext
  /\ prev = NoContext
  /\ ops = 0
  /\ out = NoOutput
  /\ xml \in {XmlDocument(ok, root, body) : ok \in BOOLEAN, root \in XmlRoots, body \in XmlBodies}

\* grammar = Grammar.from_xml(xml)
FromXmlCall ==
  /\ out.op = "none"
  /\ out' = [op |-> "from_xml", text |-> <<>>, items |-> <<>>, err |-> FromXmlSource(xml).err]
  /\ store' = FromXmlSource(xml).store
  /\ UNCHANGED <<gname, with_user_context, command, ctx, prev, ops, xml>>

\* Parser(grammar).parse(command) up to its first call of the inner parse
XmlParseBegin ==
  /\ out.op = "from_xml" /\ out.err = "none"
  /\ ctx.status = "none"
  /\ ctx' = Begun(command)
  /\ UNCHANGED <<gname, store, with_user_context, command, prev, ops, out, xml>>

XmlNext == FromXmlCall \/ XmlParseBegin \/ ParseStep \/ Execute

SpecXml == XmlInit /\ [][XmlNext]_vars

\* ------------------------------------------------------------------ properties

Nodes == 1..Len(store)

\* parse returned this context (it did not raise)
Returned(c) == c.status \in {"parsed", "executed", "exec_raised"}

\* execute was called on this context
Executed(c) == c.status \in {"executed", "exec_raised"}

LastNode(c) == c.trail[Len(c.trail)].node
OnTrail(c, n) == \E i \in 1..Len(c.trail) : c.trail[i].node = n

\* the remaining input holds a character that is not whitespace
NonBlankLeft(c) == \E i \in (c.cursor + 1)..Len(c.command) : ~IsSpace(c.command[i])

IsPrefix(a, b) == Len(a) <= Len(b) /\ SubSeq(b, 1, Len(a)) = a

\* C1: in every context, at every step of a parse, a node whose traversals
\* limit is positive has been traversed at most that many times.
C1_TraversalBound ==
  \A n \in Nodes :
    store[n].traversals > 0 => Traversed(store, ctx, n) <= store[n].traversals

\* a state C1 fails in: a node traversed more often than its positive limit
C1_Exceeded ==
  /\ gname = "grouploop"
  /\ \E n \in Nodes : store[n].traversals = 1 /\ Traversed(store, ctx, n) = 2

\* C2: after a parse, what ctx.vars holds under the var_name of a Variable the
\* parse went through is a scalar when the Variable's traversals is 1, and
\* otherwise a list, of at most traversals values when traversals is positive;
\* also when several Variables share the var_name.
C2_VarShape ==
  ctx.status = "parsed" =>
    \A n \in Nodes :
      (IsVariableKind(store[n].kind) /\ OnTrail(ctx, n)) =>
        /\ VarName(store[n]) \in DOMAIN ctx.vars
        /\ store[n].traversals = 1 => ~ctx.vars[VarName(store[n])].list
        /\ store[n].traversals # 1 => ctx.vars[VarName(store[n])].list
        /\ store[n].traversals > 1 =>
             Len(ctx.vars[VarName(store[n])].items) <= store[n].traversals

\* C3: no callback is invoked while parse runs or before execute is called;
\* when the command parsed down to an Action, execute invokes the Action's
\* callback exactly once, with the context's vars as keyword arguments, and
\* returns what the callback returned.
C3_CallbackOnce ==
  /\ ctx.status \in {"parsing", "parsed", "raised"} => ctx.calls = <<>>
  /\ (Executed(ctx) /\ store[LastNode(ctx)].kind = "Action") =>
       /\ ctx.status = "executed"
       /\ Len(ctx.calls) = 1
       /\ ctx.calls[1].node = LastNode(ctx)
       /\ ctx.calls[1].kwargs = ctx.vars
       /\ ctx.result = ReturnOf(ctx.calls[1].callback)

\* str.split(): the words of a text
RECURSIVE InkRun(_, _)
InkRun(text, pos) ==
  IF pos < Len(text) /\ ~IsSpace(text[pos + 1]) THEN 1 + InkRun(text, pos + 1) ELSE 0

RECURSIVE Words(_)
Words(text) ==
  IF text = <<>> THEN <<>>
  ELSE IF IsSpace(Head(text)) THEN Words(Tail(text))
  ELSE <<SubSeq(text, 1, InkRun(text, 0))>>
         \o Words(SubSeq(text, InkRun(text, 0) + 1, Len(text)))

\* the values a list of words is recorded as
Recorded(ws) == ListOf([i \in 1..Len(ws) |-> StrVal(ws[i])])

\* the command is e w1 ... wk with k >= 1, the words separated by whitespace
IsEcho(cmd) ==
  /\ cmd # <<>>
  /\ ~IsSpace(cmd[1])
  /\ Len(Words(cmd)) >= 2
  /\ Words(cmd)[1] = <<"e">>

\* C4: in the grammars whose Variable t (traversals 0) has an Alias leading
\* back to it and an Action, parsing "e w1 ... wk", k >= 1, records
\* vars[t] = [w1, ..., wk] in the order of the input, consumes the whole
\* command and ends at the Action.
C4_ListInOrder ==
  (gname \in {"list", "group"} /\ ctx.status = "parsed" /\ IsEcho(command)) =>
    /\ ctx.vars = (<<"t">> :> Recorded(Tail(Words(command))))
    /\ store[LastNode(ctx)].kind = "Action"
    /\ ctx.cursor = Len(command)

\* two different words were recorded, in their order, and the Action was reached
C4_Witness ==
  /\ gname = "list"
  /\ ctx.status = "parsed"
  /\ IsEcho(command)
  /\ store[LastNode(ctx)].kind = "Action"
  /\ <<"t">> \in DOMAIN ctx.vars
  /\ ctx.vars[<<"t">>] = Recorded(<< <<"m">>, <<"e">> >>)

\* the inner parse has just chosen the node it enters next
Chosen == ctx.status = "parsing" /\ ctx.trail # <<>>

\* what the node the parse is at offers: its valid followed children, in order
Offered == NextNodes(store, ctx, LastNode(ctx))

\* the i-th offered node matches at the cursor
MatchesAt(items, i) ==
  /\ items[i].err = "none"
  /\ Match(store, ctx, items[i].node).match.some

\* C5 as the spec states it: the chosen node is first in (group, order, name)
\* order among the offered nodes that match at the cursor.
C5_KeyOrder ==
  Chosen =>
    \A i \in 1..Len(Offered) :
      MatchesAt(Offered, i) => ~KeyLess(store, Offered[i].node, ctx.pending.node)

\* what one direct child contributes to the offer: itself, or for a Group or
\* an Alias the valid nodes it leads to
FollowedOf(kid) == ChildrenFrom(store, ctx, <<kid>>, TRUE, MaxDepth - 1)

\* the direct children before position d offer nothing that matches
NoneBefore(kids, d) ==
  \A e \in 1..(d - 1) :
    \A j \in 1..Len(FollowedOf(kids[e])) : ~MatchesAt(FollowedOf(kids[e]), j)

\* the chosen node is the first match of what the d-th direct child contributes
FirstOfChild(items) ==
  \E i \in 1..Len(items) :
    /\ items[i].node = ctx.pending.node
    /\ MatchesAt(items, i)
    /\ \A j \in 1..(i - 1) : ~MatchesAt(items, j)

SortedByKey(kids) ==
  \A a \in 1..Len(kids) : \A b \in (a + 1)..Len(kids) : ~KeyLess(store, kids[b], kids[a])

ChosenFromChildren(kids) ==
  /\ SortedByKey(kids)
  /\ {kids[d] : d \in 1..Len(kids)} =
       {store[LastNode(ctx)].children[k] : k \in DOMAIN store[LastNode(ctx)].children}
  /\ \E d \in 1..Len(kids) : NoneBefore(kids, d) /\ FirstOfChild(FollowedOf(kids[d]))

\* within one parse the trail only grows and the cursor never moves back
NoBacktrack ==
  (ctx.status = "parsing" /\ ctx'.status \in {"parsing", "parsed", "raised"}) =>
    /\ IsPrefix(ctx.trail, ctx'.trail)
    /\ ctx'.cursor >= ctx.cursor

\* C5, amended: the direct children are taken in (group, order, name) order,
\* each Group or Alias among them replaced in place by the valid nodes it
\* leads to, and the chosen node is the first node of that sequence that
\* matches at the cursor; a choice made is never taken back.
C5_FirstFollowed ==
  /\ [](Chosen /\ ctx.pending.node # 0 => ChosenFromChildren(Iter(store, LastNode(ctx))))
  /\ [][NoBacktrack]_vars

\* a node was chosen although a matching offered node sorts before it
C5_Witness ==
  /\ Chosen
  /\ ctx.pending.node # 0
  /\ \E i \in 1..Len(Offered) :
       MatchesAt(Offered, i) /\ KeyLess(store, Offered[i].node, ctx.pending.node)

\* C6: parse never raises InvalidToken; execute raises InvalidToken exactly
\* when the remaining input holds a non-whitespace character, and then
\* neither a terminal operation nor a callback has run.
C6_InvalidToken ==
  /\ ctx.status = "raised" => ctx.err # "InvalidToken"
  /\ Executed(ctx) => (ctx.err = "InvalidToken" <=> NonBlankLeft(ctx))
  /\ ctx.err = "InvalidToken" =>
       ctx.status = "exec_raised" /\ ctx.calls = <<>> /\ ctx.result = <<>>

\* execute refused a command of which a node matched and text is left
C6_Witness ==
  /\ ctx.status = "exec_raised"
  /\ ctx.err = "InvalidToken"
  /\ Len(ctx.trail) >= 2
  /\ NonBlankLeft(ctx)

\* C7: with nothing but whitespace remaining, execute at the root invokes no
\* callback and raises nothing, at an Action it runs the callback, and at any
\* other node it raises UnexpectedEOL and invokes no callback.
C7_Dispatch ==
  (Executed(ctx) /\ ~NonBlankLeft(ctx)) =>
    CASE store[LastNode(ctx)].kind = "Grammar" ->
           ctx.status = "executed" /\ ctx.calls = <<>>
      [] store[LastNode(ctx)].kind = "Action" ->
           ctx.status = "executed" /\ Len(ctx.calls) = 1
      [] OTHER ->
           ctx.status = "exec_raised" /\ ctx.err = "UnexpectedEOL" /\ ctx.calls = <<>>

\* the nodes that hold n as a child
Holders(n) == {p \in Nodes : \E k \in DOMAIN store[p].children : store[p].children[k] = n}

\* the nodes reached from a set of nodes through children
RECURSIVE Descendants(_, _)
Descendants(front, seen) ==
  IF {c \in Nodes : c \notin seen /\ Holders(c) \cap front # {}} = {} THEN seen
  ELSE Descendants({c \in Nodes : c \notin seen /\ Holders(c) \cap front # {}},
                   seen \cup {c \in Nodes : c \notin seen /\ Holders(c) \cap front # {}})

Below(n) == Descendants({n}, {})

\* C8: after any construction calls, every node n reached from the grammar
\* root has n.parent.children[n.name] is n, is held by exactly one node, its
\* parent, and no node is beneath itself.
C8_Ownership ==
  /\ \A n \in Below(Root) \ {Root} :
       /\ store[n].parent # 0
       /\ store[n].name \in DOMAIN store[store[n].parent].children
       /\ store[store[n].parent].children[store[n].name] = n
       /\ Holders(n) = {store[n].parent}
  /\ \A n \in Below(Root) \cup {Root} : n \notin Below(n)

\* the ancestors of a node, by its parent references
RECURSIVE AncestorsOf(_, _)
AncestorsOf(n, fuel) ==
  IF store[n].parent = 0 \/ fuel = 0 THEN {}
  ELSE {store[n].parent} \cup AncestorsOf(store[n].parent, fuel - 1)

\* the nodes an Alias leads to in a fresh context
LeadsTo(a) ==
  {AliasFollow(store, NewContext(<<>>), a, MaxDepth)[i].node :
     i \in 1..Len(AliasFollow(store, NewContext(<<>>), a, MaxDepth))}

\* the grammar has an Alias that leads to an ancestor of its own with traversals=0
HasBackAlias ==
  \E a \in Nodes :
    /\ store[a].kind = "Alias"
    /\ \E n \in AncestorsOf(a, Len(store)) \cap LeadsTo(a) : store[n].traversals = 0

\* the next call of the inner parse is the same call again: same node and
\* match, same cursor, vars and traversal counts, so the descent has no end
SameAgain(c, nx) ==
  /\ nx.status = "parsing"
  /\ c.trail # <<>>
  /\ nx.pending = c.pending
  /\ c.pending.node = LastNode(c)
  /\ nx.cursor = c.cursor
  /\ nx.vars = c.vars
  /\ nx.traversed = c.traversed

\* C9: in a grammar with an Alias leading to an ancestor with traversals=0,
\* parse terminates on every command: its descent never repeats a call.
C9_ParseTerminates ==
  (HasBackAlias /\ ctx.status = "parsing") =>
    ~SameAgain(ctx, ParseNode(store, ctx))

Over(c) == c.status \in {"parsed", "raised"}

DigitsEndToken(text) ==
  /\ DigitRun(text, 0) > 0
  /\ DigitRun(text, 0) = Len(text) \/ IsSpace(text[DigitRun(text, 0) + 1])

\* C12 as the specification states it: with Grammar(n=Integer()), the parse
\* of "123.45" consumes "123", leaves ".45" and records n = 123.
C12_ConsumesDigits ==
  (gname = "integer" /\ command = <<"1", "2", "3", ".", "4", "5">> /\ Returned(ctx)) =>
    /\ Slice(ctx.command, 0, ctx.cursor) = <<"1", "2", "3">>
    /\ Remaining(ctx.command, ctx.cursor) = <<".", "4", "5">>
    /\ ctx.vars = Put(NewContext(<<>>).vars, <<"n">>, Scalar(IntVal(<<"1", "2", "3">>)))

\* C12: with Grammar(n=Integer()), a parse consumes the digits a command
\* begins with, and records their value as n, only when whitespace or the end
\* of the command follows them; otherwise, as for "123.45", it consumes
\* nothing, the whole command remains and vars stays empty.
C12_IntegerToken ==
  (gname = "integer" /\ Returned(ctx)) =>
    IF DigitsEndToken(ctx.command)
    THEN /\ ctx.cursor = DigitRun(ctx.command, 0) + SpaceRun(ctx.command, DigitRun(ctx.command, 0))
         /\ ctx.vars = Put(NewContext(<<>>).vars, <<"n">>,
                           Scalar(IntVal(Slice(ctx.command, 0, DigitRun(ctx.command, 0)))))
    ELSE /\ ctx.cursor = 0
         /\ Remaining(ctx.command, ctx.cursor) = ctx.command
         /\ ctx.vars = NewContext(<<>>).vars

\* the parse of "123.45" has returned
C12_Witness ==
  /\ gname = "integer" /\ ctx.status = "parsed"
  /\ ctx.command = <<"1", "2", "3", ".", "4", "5">>
  /\ Remaining(ctx.command, ctx.cursor) = <<"1", "2", "3", ".", "4", "5">>

\* the command is one word, then whitespace only
OneWord(text) == Len(Words(text)) = 1 /\ ~IsSpace(text[1])

IsTrueWord(w) == \E i \in 1..Len(BooleanTrue) : BooleanTrue[i] = LowerAll(w)
IsFalseWord(w) == \E i \in 1..Len(BooleanFalse) : BooleanFalse[i] = LowerAll(w)

\* C13: with Grammar(b=Boolean()), the parse of a word that is, in any mix of
\* upper and lower case, one of true yes aye enable enabled on 1 records
\* b = True, and of one of false no disable disabled off 0 records b = False.
C13_BooleanValue ==
  (gname = "boolean" /\ Returned(ctx) /\ OneWord(ctx.command)) =>
    /\ IsTrueWord(Words(ctx.command)[1]) =>
         ctx.vars = Put(NewContext(<<>>).vars, <<"b">>, Scalar(BoolVal(TRUE)))
    /\ IsFalseWord(Words(ctx.command)[1]) =>
         ctx.vars = Put(NewContext(<<>>).vars, <<"b">>, Scalar(BoolVal(FALSE)))

\* the parse of "YeS" has recorded b = False
C13_YesIsFalse ==
  /\ gname = "boolean" /\ ctx.status = "parsed" /\ ctx.command = <<"Y", "e", "S">>
  /\ ctx.vars = Put(NewContext(<<>>).vars, <<"b">>, Scalar(BoolVal(FALSE)))

\* str.rstrip(): the text without its trailing whitespace
RECURSIVE RStrip(_)
RStrip(text) ==
  IF text # <<>> /\ IsSpace(text[Len(text)]) THEN RStrip(SubSeq(text, 1, Len(text) - 1))
  ELSE text

\* the context of a parse that returned with every character consumed by one
\* token at least
FullyMatched(c) == c.status = "parsed" /\ c.cursor = Len(c.command) /\ Len(c.trail) > 1

\* C14: when a command is a sequence of tokens that matches fully, followed
\* by any amount of whitespace, its parse returns with the cursor at the end
\* of the command, nothing remaining: the last separator took the whitespace.
C14_TrailingSpace ==
  (ctx.status \notin {"none", "parsing"} /\ FullyMatched(Parse(store, RStrip(ctx.command)))) =>
    /\ Returned(ctx)
    /\ ctx.cursor = Len(ctx.command)
    /\ Remaining(ctx.command, ctx.cursor) = <<>>

\* a command of two tokens and two characters of trailing whitespace was parsed
C14_Witness ==
  /\ ctx.status = "parsed"
  /\ Len(ctx.command) = Len(RStrip(ctx.command)) + 2
  /\ Len(Words(ctx.command)) = 2
  /\ FullyMatched(Parse(store, RStrip(ctx.command)))
  /\ ctx.cursor = Len(ctx.command)

\* C15: while a parse runs its cursor never decreases; in every state
\* 0 <= cursor <= len(command), and parsed followed by remaining is the command.
C15_Cursor ==
  /\ [](/\ 0 <= ctx.cursor
        /\ ctx.cursor <= Len(ctx.command)
        /\ ParsedText(ctx) \o Remaining(ctx.command, ctx.cursor) = ctx.command)
  /\ [][ctx.status = "parsing" => ctx'.cursor >= ctx.cursor]_vars

\* a parse has advanced over a first token and then over a second one
C15_Witness ==
  /\ Len(ctx.trail) >= 3
  /\ ctx.trail[3].match.some /\ ctx.trail[3].match.start > 0 /\ ctx.trail[3].match.len > 0
  /\ ctx.cursor >= ctx.trail[3].match.start + ctx.trail[3].match.len
  /\ ctx.cursor < Len(ctx.command)

\* the help keys of a node, each followed by a single space
KeysSpaced(n) == {HelpOf(store[n])[i].key \o <<" ">> : i \in 1..Len(HelpOf(store[n]))}

\* the strings given to static_candidates, each followed by a single space
GivenSpaced(n) ==
  {store[n].candidates.items[i] \o <<" ">> : i \in 1..Len(store[n].candidates.items)}

CandidatesOf(n, text) == NodeCandidates(store, ctx, n, text).items

FollowedNow == Children(store, ctx, CtxLastNode(ctx), TRUE, MaxDepth)

\* the rows of the followed children that are visible
RowsOfShown ==
  UNION {{AddHelp(store[FollowedNow[i].node])[k] :
            k \in 1..Len(AddHelp(store[FollowedNow[i].node]))} :
         i \in {j \in 1..Len(FollowedNow) :
                  Visible(store, ctx, FollowedNow[j].node, MaxDepth).ok}}

\* how many rows the visible ones among these followed children have
RECURSIVE CountRows(_)
CountRows(items) ==
  IF items = <<>> THEN 0
  ELSE (IF Visible(store, ctx, Head(items).node, MaxDepth).ok
        THEN Len(HelpOf(store[Head(items).node])) ELSE 0) + CountRows(Tail(items))

\* C17: the enumerator context.help() returns holds the help rows of the
\* valid, visible followed children of the last node, each once per time the
\* child is yielded, in ascending order of (group, order, key, text), so rows
\* of group 9999 come after all others; iterating it yields (group, key,
\* text) in that order.  After parse("e ") of the grammar "help" these are
\* the rows of m, v, b and s (group 0), of c (group 2) and of the Action.
C17_HelpRows ==
  (out.op = "help" /\ out.err = "none") =>
    /\ \A i \in 1..Len(out.items) : \A j \in (i + 1)..Len(out.items) :
         ~RowLess(out.items[j], out.items[i])
    /\ {out.items[i] : i \in 1..Len(out.items)} = RowsOfShown
    /\ Len(out.items) = CountRows(FollowedNow)
    /\ \A i \in 1..Len(out.items) : \A j \in (i + 1)..Len(out.items) :
         out.items[i].group = 9999 => out.items[j].group >= 9999
    /\ \A i \in 1..Len(out.items) :
         HelpIter(out.items)[i] = <<out.items[i].group, out.items[i].key, out.items[i].text>>
    /\ (gname = "help" /\ ctx.command = <<"e", " ">>) =>
         HelpIter(out.items) =
           << <<0, <<"<", "m", ">">>, <<"M">> >>, <<0, <<"<", "v", ">">>, <<"V">> >>,
              <<0, <<"b">>, <<"B">> >>, <<0, <<"s">>, <<"S">> >>, <<2, <<"c">>, <<"C">> >>,
              <<9999, <<"<", "e", "o", "l", ">">>, <<>> >> >>

\* help() was called after parse("e ") of the grammar "help"
C17_Witness ==
  /\ gname = "help" /\ ctx.command = <<"e", " ">>
  /\ out.op = "help" /\ out.err = "none" /\ Len(out.items) = 6

\* C18: the parser never selects an Alias: no entry of the trail is an Alias
\* and no parse fails with Error('Alias nodes should never be selected'),
\* also when an Alias is inside a Group or has an Alias as its target.
C18_NoAliasSelected ==
  /\ \A i \in 1..Len(ctx.trail) : store[ctx.trail[i].node].kind # "Alias"
  /\ ~(ctx.status = "raised" /\ ctx.err = "Error")

\* the parse of a command of the grammar with an Alias inside a Group has
\* entered the Alias and failed
C18_AliasSelected ==
  /\ gname = "aliasingroup" /\ ctx.status = "raised" /\ ctx.err = "Error"
  /\ store[LastNode(ctx)].kind = "Alias"

\* the nodes a generator yielded
Yields(items) == {items[i].node : i \in 1..Len(items)}
Unbroken(items) == \A i \in 1..Len(items) : items[i].err = "none"

\* the Alias a of the grammar "doc", and the children m and e of its node e
DocAlias == Find(store, Root, << <<"a">> >>)
DocTwo == Find(store, Root, << <<"e">>, <<"m">> >>)
DocThree == Find(store, Root, << <<"e">>, <<"e">> >>)

\* C19 as the specification states it: in Grammar(e=Node(m, e), m, a=Alias('/e/*'))
\* following the Alias yields both children of e in every context.
C19_BothAlways ==
  (gname = "doc" /\ ctx.trail # <<>>) =>
    /\ Unbroken(Follow(store, ctx, DocAlias, MaxDepth))
    /\ Yields(Follow(store, ctx, DocAlias, MaxDepth)) = {DocTwo, DocThree}

\* C19: in Grammar(e=Node(m, e), m, a=Alias('/e/*')) following the Alias
\* yields those of the two children of e that the context may still traverse:
\* both in a context that went through neither, and no longer the one the
\* context went through.
C19_ValidTargets ==
  (gname = "doc" /\ ctx.trail # <<>>) =>
    /\ Unbroken(Follow(store, ctx, DocAlias, MaxDepth))
    /\ Yields(Follow(store, ctx, DocAlias, MaxDepth)) =
         {n \in {DocTwo, DocThree} : Traversed(store, ctx, n) < store[n].traversals}
    /\ (~OnTrail(ctx, DocTwo) /\ ~OnTrail(ctx, DocThree)) =>
         Yields(Follow(store, ctx, DocAlias, MaxDepth)) = {DocTwo, DocThree}

\* a parse went through the child m of e, and the Alias leads to e only
C19_Witness ==
  /\ gname = "doc" /\ ctx.status = "parsed" /\ OnTrail(ctx, DocTwo)
  /\ Yields(Follow(store, ctx, DocAlias, MaxDepth)) = {DocThree}

\* The grammar the nested expression builds for the document the grammar of
\* this state was loaded from
IsXml == \E i \in 1..Len(XmlDocs) : XmlDocs[i].name = gname
Twin == Programmatic(XmlDocs[CHOOSE i \in 1..Len(XmlDocs) : XmlDocs[i].name = gname].doc)
TwinHelp(t) == Output("help", <<>>, CtxHelp(t, Parse(t, command)))

\* C20: a grammar loaded by Grammar.from_xml and the grammar the equivalent
\* nested expression builds (Group elements with nested descendants included)
\* give the same (group, order, key, text) help rows, in the same order, in
\* the context parse returns for every command.
C20_SameRows ==
  (IsXml /\ out.op = "help") => (Returned(Parse(Twin, command)) /\ out = TwinHelp(Twin))

\* help() after 'e e' on the grammar loaded from the test_group document: the
\* Action below the Group's variable is listed with its own group and order,
\* where the nested expression lists it with the Group's
C20_RowsDiffer ==
  /\ gname = "xmlgroup"
  /\ command = <<"e", " ", "e">>
  /\ out.op = "help" /\ out.err = "none"
  /\ \E i \in 1..Len(out.items) :
       /\ out.items[i].key = <<"<", "e", "o", "l", ">">>
       /\ out.items[i].group = 9999 /\ out.items[i].order = 0
  /\ \E i \in 1..Len(TwinHelp(Twin).items) :
       /\ TwinHelp(Twin).items[i].key = <<"<", "e", "o", "l", ">">>
       /\ TwinHelp(Twin).items[i].group = 1 /\ TwinHelp(Twin).items[i].order = 1

\* C21: Grammar.from_xml fails with XMLParseError, and with no other error,
\* when the document is malformed, when its root element is not named
\* grammar, and when an element names an unknown node kind.
C21_XmlParseError ==
  (/\ out.op = "from_xml"
   /\ \/ ~xml.ok
      \/ xml.root # "grammar"
      \/ \E i \in 1..Len(xml.body) : xml.body[i].tag \notin NodeTypes)
  => out.err = "XMLParseError"

\* <grammar><node name='e'><bogus/></node></grammar>: the load ends in
\* UnboundLocalError
C21_OtherError ==
  /\ out.op = "from_xml"
  /\ xml.ok /\ xml.root = "grammar"
  /\ Len(xml.body) = 2
  /\ xml.body[1].tag = "node" /\ xml.body[2] = XmlTag("bogus", <<>>, 2)
  /\ out.err = "UnboundLocalError"

\* r is reached from a by descending through children named comps, in turn
RECURSIVE Descends(_, _, _)
Descends(a, r, comps) ==
  IF comps = <<>> THEN r = a
  ELSE \E p \in Nodes :
         /\ \E k \in DOMAIN store[p].children : store[p].children[k] = r
         /\ store[r].name = comps[Len(comps)]
         /\ Descends(a, p, SubSeq(comps, 1, Len(comps) - 1))

Absolute(path) == path # <<>> /\ Head(path) = "/"

\* C22 as stated: find with a path that begins with '/' returns the same node
\* whichever node it is called on; with a relative path it resolves the
\* components within the subtree of the node it is called on.
C22_AnchorIgnored ==
  out.op = "find" =>
    IF Absolute(out.text)
    THEN \A n \in Nodes : NodeFind(store, n, out.text) = [items |-> out.items, err |-> out.err]
    ELSE out.err = "none" => Descends(out.node, out.items[1], NonEmpty(Split(out.text)))

\* C22: find resolves the non-empty components of the path, with or without
\* a leading '/', by descending from the node it is called on through
\* children of those names; it returns the node reached, and raises
\* InvalidNodePath when there is none.
C22_Rooted ==
  out.op = "find" =>
    /\ out.err = "none" =>
         /\ Len(out.items) = 1
         /\ Descends(out.node, out.items[1], NonEmpty(Split(out.text)))
    /\ out.err # "none" =>
         /\ out.err = "InvalidNodePath"
         /\ ~\E r \in Nodes : Descends(out.node, r, NonEmpty(Split(out.text)))

\* /e of the doctest grammar asked for '/m' answers /e/m, the parser /m
C22_Witness ==
  /\ gname = "doc" /\ out.op = "find"
  /\ out.node # Root /\ out.text = <<"/", "m">>
  /\ out.err = "none"
  /\ Path(store, out.items[1]) = << <<"e">>, <<"m">> >>
  /\ ParserFind(store, out.text).items # out.items

\* The normalized target of the alias the caller followed, and whether it
\* is written without * and ?
Aimed == AliasTarget(store, out.node)
NoGlob(path) ==
  \A i \in 1..Len(path) : \A j \in 1..Len(path[i]) : path[i][j] \notin {"*", "?"}

\* C23: find(path) raises InvalidNodePath whenever a component of path is
\* absent, and following an Alias whose target, written without glob
\* characters, names no existing node raises InvalidNodePath rather than
\* resolving to an empty set.
C23_InvalidNodePath ==
  /\ (out.op = "find" /\ ~\E r \in Nodes : Descends(out.node, r, NonEmpty(Split(out.text))))
       => out.err = "InvalidNodePath"
  /\ (out.op = "follow" /\ NoGlob(Aimed) /\ Find(store, RootOf(store, out.node), Aimed) = 0)
       => out.err = "InvalidNodePath"

\* Alias('/e/x') beside a node /e that has no child x: following it yields
\* nothing and raises nothing
C23_EmptySet ==
  /\ gname = "missing" /\ out.op = "follow"
  /\ Aimed = << <<"e">>, <<"x">> >>
  /\ Find(store, RootOf(store, out.node), Aimed) = 0
  /\ out.items = <<>> /\ out.err = "none"

\* The call of the inner parse about to be made enters a Variable with the
\* text its parse hook rejects
Rejecting ==
  /\ ctx.status = "parsing"
  /\ ctx.pending.match.some
  /\ Rejects(store[ctx.pending.node].kind,
             Slice(ctx.command, ctx.pending.match.start,
                   ctx.pending.match.start + ctx.pending.match.len))

\* C24: when the parse hook of a Variable rejects the matched text with
\* ValidationError during Parser.parse, parse ends with that error (it is not
\* caught and no further node is entered), the rejected text is not
\* recorded in vars and the traversal count of the variable is not
\* incremented.
C24_Rejected ==
  /\ [][Rejecting => /\ ctx'.status = "raised" /\ ctx'.err = "ValidationError"
                     /\ ctx'.pending = NoPending
                     /\ ctx'.vars = ctx.vars
                     /\ ctx'.traversed = ctx.traversed]_vars
  /\ [](ctx.err = "ValidationError" => ctx.status = "raised")

\* '1 0': 1 is recorded, 0 is rejected
C24_Witness ==
  /\ gname = "checked" /\ command = <<"1", " ", "0">>
  /\ ctx.status = "raised" /\ ctx.err = "ValidationError"
  /\ ctx.vars[<<"c">>] = ListOf(<<StrVal(<<"1">>)>>)
  /\ TraversedAt(ctx, << <<"c">> >>) = 1
  /\ ctx.trail[Len(ctx.trail)].node = 2

\* C29: a node constructed without a pattern has its name for its pattern
\* after every naming, also when it had a name already and is attached under
\* another key; its help key is then its name, not the placeholder <name>.
C29_PatternIsName ==
  \A n \in Nodes :
    (store[n].kind = "Node" /\ store[n].name # NoName) =>
      /\ store[n].pattern = PatLit(store[n].name)
      /\ LazyKey(store[n]) = store[n].name

\* A node attached as x and then as y: it is named y, matches x, and its
\* help key is <y>
C29_Renamed ==
  \E n \in Nodes :
    /\ store[n].kind = "Node" /\ store[n].name = <<"y">>
    /\ store[n].pattern = PatLit(<<"x">>) /\ store[n].cpattern = PatLit(<<"x">>)
    /\ LazyKey(store[n]) = <<"<", "y", ">">>
    /\ \E p \in Nodes : <<"y">> \in DOMAIN store[p].children /\ store[p].children[<<"y">>] = n

\* d is beneath g with no Group between them
RECURSIVE Governs(_, _, _)
Governs(g, d, fuel) ==
  /\ fuel > 0
  /\ \E p \in Nodes :
       /\ \E k \in DOMAIN store[p].children : store[p].children[k] = d
       /\ p = g \/ (store[p].kind # "Group" /\ Governs(g, p, fuel - 1))

Carries(node, apply) ==
  /\ apply.traversals # Absent => node.traversals = apply.traversals
  /\ apply.group # Absent => node.group = apply.group
  /\ apply.order # Absent => node.order = apply.order

\* C25: after any sequence of construction calls, every descendant of a Group
\* that is not a Group and not beneath a nested Group carries the Group's
\* value of every attribute the Group overrides, descendants attached to the
\* Group's children after the Group got those children included.
C25_Overrides ==
  \A g \in Nodes : \A d \in Nodes :
    (store[g].kind = "Group" /\ store[d].kind # "Group" /\ Governs(g, d, Len(store)))
      => Carries(store[d], store[g].apply)

\* A node attached to a Group, then a node attached to that node: the
\* second is beneath the Group and has its own order still
C25_Missed ==
  \E g \in Nodes : \E c \in Nodes : \E d \in Nodes :
    /\ store[g].kind = "Group" /\ store[c].kind = "Node" /\ store[d].kind = "Node"
    /\ store[c].parent = g /\ store[d].parent = c
    /\ Governs(g, c, Len(store)) /\ Governs(g, d, Len(store))
    /\ store[c].order = store[g].apply.order
    /\ store[d].order = 0 /\ store[g].apply.order # 0

\* C26: after any sequence of construction, naming and attribute calls on a
\* node, its compiled pattern, its compiled separator and its combined
\* matcher are the compilation of its current pattern and separator.
C26_InSync ==
  \A n \in Nodes :
    /\ store[n].pattern.t # "none" => store[n].cpattern = store[n].pattern
    /\ store[n].cseparator = store[n].separator
    /\ (store[n].pattern.t # "none" /\ store[n].separator.t # "none")
         => store[n].full = CompileFull(store[n].pattern, store[n].separator)

\* A node named x and then called with pattern='m': it matches with the
\* compilation of x
C26_Stale ==
  \E n \in Nodes :
    /\ store[n].name = <<"x">>
    /\ store[n].pattern = PatLit(<<"m">>)
    /\ store[n].cpattern = PatLit(<<"x">>)
    /\ store[n].full = CompileFull(PatLit(<<"x">>), SepDefault)

\* The single variable of the Integer and Word doctest grammars finds no
\* token at the start of the command: its pattern does not match there, or
\* what follows the match is not a separator
NoToken ==
  \/ PatMatch(store[2].pattern, command, 0) = NoMatch
  \/ SepMatch(store[2].separator, command, PatMatch(store[2].pattern, command, 0)) = NoMatch

\* C27: every node the parser entered after the grammar matched its pattern
\* where the cursor was, with its separator matching right after the matched
\* text; and when the text the pattern matches is followed by a character
\* that is no separator, the node is not entered, nothing is consumed and no
\* variable is recorded (Integer on "123.45", Word on "123").
C27_SeparatorFollows ==
  /\ \A i \in 2..Len(ctx.trail) :
       /\ ctx.trail[i].match.some
       /\ PatMatch(store[ctx.trail[i].node].pattern, ctx.command, ctx.trail[i].match.start)
            = ctx.trail[i].match.len
       /\ SepMatch(store[ctx.trail[i].node].separator, ctx.command,
                   ctx.trail[i].match.start + ctx.trail[i].match.len) # NoMatch
  /\ (gname \in {"integer", "word"} /\ ctx.status \notin {"none", "parsing"} /\ NoToken) =>
       /\ ctx.status # "raised"
       /\ Len(ctx.trail) = 1
       /\ ctx.cursor = 0
       /\ Remaining(ctx.command, ctx.cursor) = ctx.command
       /\ ctx.vars = NewContext(<<>>).vars

\* Word on "123" has returned with "123" remaining
C27_Witness ==
  /\ gname = "word" /\ ctx.status = "parsed"
  /\ ctx.command = <<"1", "2", "3">>
  /\ Remaining(ctx.command, ctx.cursor) = <<"1", "2", "3">>
  /\ ctx.vars = NewContext(<<>>).vars

\* The node at the target of the alias the caller followed (0 when there is
\* none), the node at the directory of that target, and the children of that
\* node that are neither an Alias nor a Group
Range(items) == {items[i] : i \in 1..Len(items)}
AimedNode == Find(store, RootOf(store, out.node), Aimed)
AimedDir == Find(store, RootOf(store, out.node), DirName(Aimed))
PlainKids == {c \in Range(Iter(store, AimedDir)) : store[c].kind \notin {"Alias", "Group"}}
FirstAt(items, n) == CHOOSE i \in 1..Len(items) : items[i] = n /\ \A j \in 1..(i - 1) : items[j] # n
KidAt(n) == FirstAt(Iter(store, AimedDir), n)

\* C28: following an Alias yields the single node at its normalized target
\* when there is one; otherwise it yields followed children of the target's
\* directory whose names match the basename as a glob, every such child that
\* is a node of its own among them, in child order, and for the doctest's
\* alias to '/*' the list [five, one, one, two] (here b, e, e, m).
C28_GlobFollowed ==
  (out.op = "follow" /\ AimedDir # 0) =>
    /\ out.err = "none"
    /\ AimedNode # 0 => out.items = <<AimedNode>>
    /\ AimedNode = 0 =>
         /\ \A i \in 1..Len(out.items) : FnMatch(store[out.items[i]].name, BaseName(Aimed))
         /\ \A c \in PlainKids :
              (FnMatch(store[c].name, BaseName(Aimed)) /\ Valid(store, ctx, c, MaxDepth).ok)
                => c \in Range(out.items)
         /\ \A c, d \in PlainKids \cap Range(out.items) :
              KidAt(c) < KidAt(d) => FirstAt(out.items, c) < FirstAt(out.items, d)
    /\ (gname = "aliasdoc" /\ command = <<>> /\ Aimed = << <<"*">> >>) =>
         [i \in 1..Len(out.items) |-> store[out.items[i]].name]
           = << <<"b">>, <<"e">>, <<"e">>, <<"m">> >>

\* Grammar(e=Node(), a=Alias('../*')): following the alias to the nodes
\* beside it ends in the interpreter's recursion error
C28_Recursion ==
  /\ gname = "siblings" /\ out.op = "follow"
  /\ Aimed = << <<"*">> >> /\ AimedDir = Root
  /\ out.err = "RuntimeError"

\* The final entry of the returned context's trail, the entry before it, and
\* the text the final entry's match captured
FinalEntry == ctx.trail[Len(ctx.trail)]
Penultimate == ctx.trail[Len(ctx.trail) - 1]
FinalText ==
  Slice(ctx.command, FinalEntry.match.start, FinalEntry.match.start + FinalEntry.match.len)
ParsedToAction ==
  /\ ctx.status \in {"parsed", "executed", "exec_raised"}
  /\ store[FinalEntry.node].kind = "Action"
  /\ Remaining(ctx.command, ctx.cursor) = <<>>
EolRow(row) ==
  /\ row.key = <<"<", "e", "o", "l", ">">>
  /\ row.group = store[FinalEntry.node].group
  /\ row.order = store[FinalEntry.node].order

\* C30: last_node is the node of the final trail entry, or the node of the
\* entry before it when the final entry has a match that captured empty
\* text; after a command parsed completely to an Action, help() and
\* candidates() are those of the children of the node before the Action, and
\* help() has the Action's <eol> row.
C30_LastNode ==
  (ctx.trail # <<>> /\ ctx.status \notin {"none", "parsing"}) =>
    /\ CtxLastNode(ctx) = (IF FinalEntry.match.some /\ FinalText = <<>>
                           THEN Penultimate.node ELSE FinalEntry.node)
    /\ (ParsedToAction /\ out.op = "help") =>
         /\ out.items = HelpParser(store, ctx, Penultimate.node).items
         /\ out.err = "none" => \E i \in 1..Len(out.items) : EolRow(out.items[i])
    /\ (ParsedToAction /\ out.op = "candidates") =>
         out.items = CandidatesOver(store, ctx,
                                    Children(store, ctx, Penultimate.node, TRUE, MaxDepth),
                                    out.text).items

\* 'e' parsed to the Action under e, and help() listed the rows of e's
\* children with the <eol> row among them
C30_Witness ==
  /\ gname = "help" /\ command = <<"e">> /\ ParsedToAction
  /\ FinalText = <<>> /\ Penultimate.node = Find(store, Root, << <<"e">> >>)
  /\ out.op = "help" /\ out.err = "none"
  /\ Len(out.items) > 1
  /\ \E i \in 1..Len(out.items) : EolRow(out.items[i])

\* A Variable the context went through, taken once at most
Captured(n) ==
  /\ IsVariableKind(store[n].kind)
  /\ store[n].traversals = 1
  /\ OnTrail(ctx, n)
  /\ store[n].name \in DOMAIN ctx.vars

\* C31: a Variable with traversals == 1 that has captured a value in the
\* context is not valid in it, whatever the kind of the value, and asking
\* whether it is valid raises nothing, neither when the caller asks nor when
\* parse does.
C31_NotValidAgain ==
  /\ \A n \in 1..Len(store) :
       (ctx.status \notin {"none", "parsing"} /\ Captured(n))
         => Valid(store, ctx, n, MaxDepth) = No
  /\ ctx.status = "raised" => ctx.err # "TypeError"

\* Integer on '1' has captured the integer 1, and valid(ctx) of the Integer
\* raises TypeError: parse itself ends with it when the Alias under the
\* Integer leads back to it
C31_TypeError ==
  /\ gname = "again" /\ command = <<"1">>
  /\ ctx.status = "raised" /\ ctx.err = "TypeError"
  /\ Captured(2)
  /\ ~HasLen(ctx.vars[<<"n">>])
  /\ Valid(store, ctx, 2, MaxDepth) = Fails("TypeError")

\* The text a trail entry's match captured
Token(i) ==
  Slice(ctx.command, ctx.trail[i].match.start,
        ctx.trail[i].match.start + ctx.trail[i].match.len)

\* The token followed by one space is among the strings candidates(ctx, token)
\* of the node yields
Offers(n, token) ==
  \E i \in 1..Len(NodeCandidates(store, ctx, n, token).items) :
     NodeCandidates(store, ctx, n, token).items[i] = token \o <<" ">>

\* The text the pattern of n matches at the start of the command, when it
\* matches there with a separator after it
FirstToken(n) == Slice(command, 0, PatMatch(store[n].pattern, command, 0))
HasFirstToken(n) ==
  /\ PatMatch(store[n].pattern, command, 0) # NoMatch
  /\ SepMatch(store[n].separator, command, PatMatch(store[n].pattern, command, 0)) # NoMatch

\* C32: a node with match_candidates set is entered only with a token that,
\* followed by a single space, is among the strings its candidates(ctx, token)
\* yields; a child of the grammar whose pattern and separator match at the
\* start of the command but whose candidates do not offer the token is not
\* selected.
C32_AmongCandidates ==
  /\ \A i \in 2..Len(ctx.trail) :
       store[ctx.trail[i].node].match_candidates => Offers(ctx.trail[i].node, Token(i))
  /\ \A n \in 2..Len(store) :
       (/\ ctx.status \notin {"none", "parsing"}
        /\ store[n].parent = Root /\ store[n].match_candidates
        /\ HasFirstToken(n) /\ ~Offers(n, FirstToken(n)))
         => ~OnTrail(ctx, n)

\* 'mm' matches the pattern of the Variables v and w, neither offers it, and
\* parse returned with nothing consumed
C32_Witness ==
  /\ gname = "constrained" /\ command = <<"m", "m">>
  /\ ctx.status = "parsed"
  /\ HasFirstToken(4) /\ FirstToken(4) = <<"m", "m">> /\ ~Offers(4, FirstToken(4))
  /\ Len(ctx.trail) = 1 /\ ctx.cursor = 0

\* The nodes that match tokens and are reachable from the given children
\* through any chain of Groups
RECURSIVE ThroughGroups(_, _)
ThroughGroups(kids, fuel) ==
  IF fuel = 0 THEN {}
  ELSE UNION {IF store[c].kind = "Group" THEN ThroughGroups(Range(Iter(store, c)), fuel - 1)
              ELSE IF store[c].kind = "Alias" THEN {}
              ELSE {c} : c \in kids}

\* C34: a Group is transparent to traversal: every valid node that matches
\* tokens and is reachable from the last node through any chain of Groups, a
\* Group directly inside a Group included, is among the continuations
\* children(ctx, follow=True) yields; no Group is yielded as a continuation
\* and no Group is on the trail.
C34_Transparent ==
  /\ \A i \in 1..Len(ctx.trail) : store[ctx.trail[i].node].kind # "Group"
  /\ (ctx.status = "parsed" /\ Unbroken(FollowedNow)) =>
       /\ \A i \in 1..Len(FollowedNow) : store[FollowedNow[i].node].kind # "Group"
       /\ \A c \in ThroughGroups(Range(Iter(store, CtxLastNode(ctx))), MaxDepth) :
            Valid(store, ctx, c, MaxDepth).ok => c \in Yields(FollowedNow)

\* ' m' was parsed by the grammar with a Group inside a Group: the inner
\* Group took the space as a token and is on the trail
C34_GroupOnTrail ==
  /\ gname = "nested" /\ command = <<" ", "m">>
  /\ ctx.status = "parsed"
  /\ Len(ctx.trail) = 3
  /\ store[ctx.trail[2].node].kind = "Group"
  /\ store[store[ctx.trail[2].node].parent].kind = "Group"

\* The valid nodes that match tokens among the given children, in child
\* order, with every Group replaced by its children and every Alias by the
\* nodes it leads to, however deep
RECURSIVE Expanded(_, _)
ExpandedOne(c, fuel) ==
  CASE store[c].kind = "Group" -> Expanded(Iter(store, c), fuel - 1)
    [] store[c].kind = "Alias" ->
         Expanded(Follows(AliasFollow(store, ctx, c, MaxDepth)).items, fuel - 1)
    [] OTHER -> IF Valid(store, ctx, c, MaxDepth).ok THEN <<c>> ELSE <<>>
Expanded(kids, fuel) ==
  IF kids = <<>> \/ fuel = 0 THEN <<>>
  ELSE ExpandedOne(Head(kids), fuel) \o Expanded(Tail(kids), fuel)

\* node.candidates(ctx, text) of each of the nodes, one after the other
RECURSIVE EachCandidates(_, _)
EachCandidates(nodes, text) ==
  IF nodes = <<>> THEN <<>>
  ELSE CandidatesOf(Head(nodes), text) \o EachCandidates(Tail(nodes), text)

\* C33: context.candidates(text) yields the candidates(ctx, text) of every
\* valid followed child of the last node, unchanged and one child after the
\* other in child order, the children of Groups and the targets of Aliases
\* standing where the Group or the Alias stands.
C33_Concatenation ==
  (out.op = "candidates" /\ out.err = "none") =>
    out.items = EachCandidates(Expanded(Iter(store, CtxLastNode(ctx)), MaxDepth), out.text)

\* 'm' was left unparsed by the grammar with a Group inside a Group, and
\* candidates('') offers e only: m, inside the inner Group, is missing
C33_Missed ==
  /\ gname = "nested" /\ command = <<"m">>
  /\ Len(ctx.trail) = 1
  /\ out.op = "candidates" /\ out.text = <<>> /\ out.err = "none"
  /\ out.items = << <<"e", " ">> >>
  /\ \E n \in ThroughGroups(Range(Iter(store, Root)), MaxDepth) :
       store[n].name = <<"m">> /\ Valid(store, ctx, n, MaxDepth).ok

\* The children a node holds, and whether every child of every node is held
\* under an anonymous name (none was attached by keyword)
Held(s, p) == {s[p].children[k] : k \in DOMAIN s[p].children}
AnonKey(k) == \E i \in 0..MaxOps : k = Anon(i)
OnlyPositional == \A p \in Nodes : \A k \in DOMAIN store[p].children : AnonKey(k)

\* C35: a call that passes a positional child or a Grammar to merge, made on
\* nodes whose children were all attached by such calls, leaves every child
\* attached that was attached before it.
C35_NeverReplaced ==
  [][((BuildPositional \/ BuildMerge) /\ OnlyPositional)
       => \A p \in Nodes : Held(store, p) \subseteq Held(store', p)]_vars

\* A node was attached to p as its first positional child and still names p
\* as its parent, but p holds another node under that anonymous name
C35_Replaced ==
  /\ gname = "build" /\ OnlyPositional
  /\ \E n \in Nodes : \E p \in Nodes \ {n} :
       /\ store[n].parent = p /\ store[n].name = Anon(0)
       /\ n \notin Held(store, p)
       /\ Anon(0) \in DOMAIN store[p].children
       /\ store[p].kind # "Grammar"

\* C36: resolving an alias ends for every grammar: follow, valid and
\* children(ctx, follow=True) return without running into the interpreter's
\* recursion limit, also when the directory an Alias globs over holds that
\* Alias or another Alias that globs back over it; parse, which calls them,
\* does not fail with it either.
C36_Resolves ==
  /\ out.op = "follow" => out.err # "RuntimeError"
  /\ ctx.status \in {"parsed", "raised"} =>
       /\ ctx.err # "RuntimeError"
       /\ \A n \in Nodes :
            /\ Valid(store, ctx, n, MaxDepth).err # "RuntimeError"
            /\ \A i \in 1..Len(Children(store, ctx, n, TRUE, MaxDepth)) :
                 Children(store, ctx, n, TRUE, MaxDepth)[i].err # "RuntimeError"

\* parse('e') of the grammar with two Aliases that glob over each other's
\* directory ended with the recursion error, and so does valid(ctx) of each
C36_Endless ==
  /\ gname = "mutual" /\ command = <<"e">>
  /\ ctx.status = "raised" /\ ctx.err = "RuntimeError"
  /\ \A a \in Nodes : store[a].kind = "Alias" =>
       Valid(store, ctx, a, MaxDepth) = Fails("RuntimeError")

\* execute was called on a context whose command parsed completely to an
\* Action constructed without a callback
AtBareAction ==
  /\ Executed(ctx) /\ ~NonBlankLeft(ctx)
  /\ store[LastNode(ctx)].kind = "Action"
  /\ store[LastNode(ctx)].callback = "None"

\* C37: executing a command that ends at an Action constructed without a
\* callback raises UnexpectedEOL, the Action's default callback, and no other
\* error; no callback of the program is invoked.
C37_DefaultCallback ==
  AtBareAction => (ctx.status = "exec_raised" /\ ctx.err = "UnexpectedEOL" /\ ctx.calls = <<>>)

\* 'e' parsed to the Action() under e and execute raised TypeError
C37_TypeError ==
  /\ gname = "nocallback" /\ AtBareAction
  /\ Path(store, store[LastNode(ctx)].parent) = << <<"e">> >>
  /\ ctx.status = "exec_raised" /\ ctx.err = "TypeError"

\* C38: a Variable the context has not gone through as often as its
\* traversals allow is valid in it, whatever other Variables have captured,
\* also one that stored its value under this node's name.
C38_OwnCount ==
  \A n \in Nodes :
    (/\ ctx.status \notin {"none", "parsing"}
     /\ IsVariableKind(store[n].kind)
     /\ NodeValid(store, ctx, n))
      => Valid(store, ctx, n, MaxDepth) = Yes

\* 'n o' of Grammar(t=Variable()(t=Variable()(Action))): the outer t captured
\* 'n', the inner t was never entered and is not valid, and 'o' is left
C38_OtherCapture ==
  /\ gname = "samename" /\ command = <<"n", " ", "o">>
  /\ ctx.status = "parsed"
  /\ Remaining(ctx.command, ctx.cursor) = <<"o">>
  /\ OnTrail(ctx, 2) /\ ~OnTrail(ctx, 3)
  /\ Traversed(store, ctx, 3) = 0
  /\ store[3].name \in DOMAIN ctx.vars
  /\ Valid(store, ctx, 3, MaxDepth) = No


\* A step that was a call of help() or of candidates(text): parse has
\* returned, and the step is not the one execute() makes
Called ==
  /\ ctx.status \in {"parsed", "executed", "exec_raised"}
  /\ ctx'.status = ctx.status

\* C39: context.help() and context.candidates(text) leave the context as it
\* was: cursor, vars, traversal counters and trail are the same after the
\* call as before it, and execute() on the context does after the call what
\* it would have done before it; whatever calls and execute() came since,
\* the rows or candidates last returned are what the same call returns now.
C39_ContextUnchanged ==
  /\ [][Called =>
          /\ ctx'.cursor = ctx.cursor /\ ctx'.vars = ctx.vars
          /\ ctx'.traversed = ctx.traversed /\ ctx'.trail = ctx.trail
          /\ ctx' = ctx
          /\ ctx.status = "parsed" =>
               ContextExecute(store', with_user_context', ctx')
                 = ContextExecute(store, with_user_context, ctx)]_vars
  /\ [](/\ out.op = "help" => out = Output("help", <<>>, CtxHelp(store, ctx))
        /\ out.op = "candidates" =>
             out = Output("candidates", out.text, CtxCandidates(store, ctx, out.text)))

\* 'e' was parsed with a traversed node among the children help() and
\* candidates() walk, one of the two was called, and execute() has run
C39_Witness ==
  /\ out.op \in {"help", "candidates"}
  /\ ctx.status = "executed"
  /\ DOMAIN ctx.traversed # {}
  /\ \E i \in 1..Len(Iter(store, CtxLastNode(ctx))) :
       ReadsCounter(store, ctx, Iter(store, CtxLastNode(ctx))[i])

====
